---- MODULE Spec2Model ----
(***************************************************************************)
(* A model of the marzpay-js SDK: the PhoneNumberUtils class (phone number *)
(* normalisation, validation, provider lookup, masking), the               *)
(* MarzPay.request gateway with its MarzPayError error model, called by    *)
(* one caller or by several at once, and operations of the domain modules  *)
(* (services, webhooks, collections, balance) from call to result.         *)
(*                                                                         *)
(* JavaScript values are tagged records, so that null, undefined, numbers  *)
(* and strings can be told apart the way `typeof` and truthiness tell them *)
(* apart.  A string is a sequence: of one-character strings where the code *)
(* looks at characters (phone numbers, provider names), of longer pieces   *)
(* of text where it only concatenates and compares (messages, URLs).       *)
(* An object is a function from its own keys to their values.              *)
(***************************************************************************)
EXTENDS Integers, Sequences, FiniteSets, TLC

VARIABLES
    phone,          \* the phone argument the calls of this behaviour receive
    op,             \* the PhoneNumberUtils method called last ("none" at first)
    arg,            \* the second argument of that call (provider / maskChar)
    result,         \* the completion of that call: a returned value or a throw
    providerSeen,   \* the value the first getProvider call returned
    given,          \* the config argument the MarzPay constructor received
    config,         \* this.config of the MarzPay instance
    calls,          \* per caller, its request() call in progress or ended last
    retry           \* the retryWithBackoff call: its position and its locals

phoneVars == <<phone, op, arg, result, providerSeen>>

requestVars == <<given, config, calls>>

vars == <<phone, op, arg, result, providerSeen, given, config, calls, retry>>

\* retryWithBackoff has not been called
NoRetry == [pc |-> "idle"]

\* the callers whose request() calls may be in flight at the same time
MaxCalls == 2
Slots == 1..MaxCalls

\* the call of the first caller
call == calls[1]

-----------------------------------------------------------------------------
(* JavaScript values and completions *)

Str(s) == [t |-> "string", s |-> s]
Num(n) == [t |-> "number", n |-> n]
Bool(b) == [t |-> "boolean", b |-> b]
Null == [t |-> "null"]
Undefined == [t |-> "undefined"]
\* the number NaN
NaN == [t |-> "nan"]
Arr(items) == [t |-> "array", items |-> items]
Obj(f) == [t |-> "object", f |-> f]

\* a value no call has produced yet
EmptyObject == [k \in {} |-> Undefined]
NotCalled == [k |-> "none"]
Return(v) == [k |-> "return", v |-> v]
Throw(e) == [k |-> "throw", e |-> e]

IsString(v) == v.t = "string"

\* `!v` of JavaScript
Falsy(v) ==
    \/ v.t \in {"null", "undefined", "nan"}
    \/ v.t = "string" /\ v.s = <<>>
    \/ v.t = "number" /\ v.n = 0
    \/ v.t = "boolean" /\ ~v.b

-----------------------------------------------------------------------------
(* String helpers, as String.prototype defines them *)

Digits == {"0", "1", "2", "3", "4", "5", "6", "7", "8", "9"}

Min(a, b) == IF a < b THEN a ELSE b
Max(a, b) == IF a > b THEN a ELSE b

\* s.startsWith(p)
StartsWith(s, p) == Len(s) >= Len(p) /\ SubSeq(s, 1, Len(p)) = p

\* s.substring(a, b): indices clamped to [0, length], swapped when a > b
Substring(s, a, b) ==
    LET ca == Max(0, Min(a, Len(s)))
        cb == Max(0, Min(b, Len(s)))
    IN  SubSeq(s, Min(ca, cb) + 1, Max(ca, cb))

\* s.substring(a)
SubstringFrom(s, a) == Substring(s, a, Len(s))

\* s.repeat(n)
RECURSIVE Repeat(_, _)
Repeat(s, n) == IF n <= 0 THEN <<>> ELSE s \o Repeat(s, n - 1)

LowerChar(c) ==
    CASE c = "A" -> "a" [] c = "E" -> "e" [] c = "I" -> "i"
      [] c = "L" -> "l" [] c = "M" -> "m" [] c = "N" -> "n"
      [] c = "R" -> "r" [] c = "T" -> "t" [] c = "U" -> "u"
      [] OTHER -> c

\* s.toLowerCase()
ToLowerCase(s) == [i \in 1..Len(s) |-> LowerChar(s[i])]

\* /^[0-9]*$/ over the whole of s
AllDigits(s) == \A i \in 1..Len(s) : s[i] \in Digits

-----------------------------------------------------------------------------
(* PhoneNumberUtils *)

\* this.patterns.international: /^\+256[0-9]{9}$/
PatternInternational(s) ==
    /\ Len(s) = 13
    /\ SubSeq(s, 1, 4) = <<"+", "2", "5", "6">>
    /\ AllDigits(SubSeq(s, 5, 13))

\* /^256[0-9]{9}$/, the check at the end of formatPhoneNumber
PatternCleaned(s) ==
    /\ Len(s) = 12
    /\ SubSeq(s, 1, 3) = <<"2", "5", "6">>
    /\ AllDigits(SubSeq(s, 4, 12))

\* phone.replace(/[^\d+]/g, '')
Cleaned(s) == SelectSeq(s, LAMBDA c : c \in Digits \cup {"+"})

\* this.providers, in the order Object.entries lists it
providers ==
    << [name |-> <<"m", "t", "n">>,
        prefixes |-> << <<"0", "7", "5">>, <<"0", "7", "6">>,
                        <<"0", "7", "7">>, <<"0", "7", "8">> >>],
       [name |-> <<"a", "i", "r", "t", "e", "l">>,
        prefixes |-> << <<"0", "7", "5">>, <<"0", "7", "0">>,
                        <<"0", "7", "4">> >>],
       [name |-> <<"a", "f", "r", "i", "c", "e", "l", "l">>,
        prefixes |-> << <<"0", "7", "9">> >>],
       [name |-> <<"u", "g", "a", "n", "d", "a", "T", "e", "l">>,
        prefixes |-> << <<"0", "7", "1">> >>] >>

\* the rewriting of `cleaned` by the if/else-if chain; Null where it returns null
FormatBranches(cleaned) ==
    IF StartsWith(cleaned, <<"0">>)
        THEN Str(<<"2", "5", "6">> \o SubstringFrom(cleaned, 1))
    ELSE IF StartsWith(cleaned, <<"2", "5", "6">>)
        THEN Str(cleaned)
    ELSE IF Len(cleaned) = 9
        THEN Str(<<"2", "5", "6">> \o cleaned)
    ELSE IF Len(cleaned) = 10 /\ StartsWith(cleaned, <<"0">>)
        THEN Str(<<"2", "5", "6">> \o SubstringFrom(cleaned, 1))
    ELSE Null

\* the '+' branch falling through to the final `+${cleaned}`
FormatPlus_PlusAgain(cleaned) == Str(<<"+">> \o cleaned)

\* what formatPhoneNumber does with a cleaned string that starts with '+'
FormatPlus(cleaned) == Str(cleaned)

formatPhoneNumber(p) ==
    IF Falsy(p) \/ ~IsString(p) THEN Null
    ELSE LET cleaned == Cleaned(p.s)
         IN  IF StartsWith(cleaned, <<"+">>) THEN FormatPlus(cleaned)
             ELSE LET b == FormatBranches(cleaned)
                  IN  IF b = Null THEN Null
                      ELSE IF ~PatternCleaned(b.s) THEN Null
                      ELSE Str(<<"+">> \o b.s)

\* isValidPhoneNumber without the final pattern test
isValidPhoneNumber_NoPatternTest(p) ==
    IF Falsy(p) \/ ~IsString(p) THEN FALSE
    ELSE ~Falsy(formatPhoneNumber(p))

isValidPhoneNumber(p) ==
    IF Falsy(p) \/ ~IsString(p) THEN FALSE
    ELSE LET formatted == formatPhoneNumber(p)
         IN  IF Falsy(formatted) THEN FALSE
             ELSE PatternInternational(formatted.s)

\* prefixes.includes(prefix)
Includes(prefixes, prefix) == \E i \in 1..Len(prefixes) : prefixes[i] = prefix

\* the for...of loop of getProvider over Object.entries(this.providers)
RECURSIVE ProviderLoop(_, _)
ProviderLoop(i, prefix) ==
    IF i > Len(providers) THEN Null
    ELSE IF Includes(providers[i].prefixes, prefix) THEN Str(providers[i].name)
    ELSE ProviderLoop(i + 1, prefix)

\* formatted.substring(4, 7)
ProviderPrefix(formatted) == Substring(formatted, 4, 7)

getProvider(p) ==
    IF ~isValidPhoneNumber(p) THEN Null
    ELSE ProviderLoop(1, ProviderPrefix(formatPhoneNumber(p).s))

\* provider.toLowerCase(): a TypeError unless provider is a string
ProviderToLowerCase(provider) ==
    IF IsString(provider) THEN Return(Str(ToLowerCase(provider.s)))
    ELSE Throw("TypeError")

isFromProvider(p, provider) ==
    LET phoneProvider == getProvider(p)
        lower == ProviderToLowerCase(provider)
    IN  IF lower.k = "throw" THEN lower
        ELSE Return(Bool(phoneProvider = lower.v))

\* getLocalNumber cutting the canonical form one character early
getLocalNumber_Substring3(p) ==
    IF ~isValidPhoneNumber(p) THEN Null
    ELSE Str(<<"0">> \o SubstringFrom(formatPhoneNumber(p).s, 3))

getLocalNumber(p) ==
    IF ~isValidPhoneNumber(p) THEN Null
    ELSE Str(<<"0">> \o SubstringFrom(formatPhoneNumber(p).s, 4))

getCountryCodeNumber(p) ==
    IF ~isValidPhoneNumber(p) THEN Null
    ELSE Str(SubstringFrom(formatPhoneNumber(p).s, 1))

\* the mask repeated once too few
MaskRepeat_OneShort(maskChar, n) ==
    IF IsString(maskChar) THEN Return(Str(Repeat(maskChar.s, n - 1)))
    ELSE Throw("TypeError")

\* maskChar.repeat(n): a TypeError unless maskChar is a string
MaskRepeat(maskChar, n) ==
    IF IsString(maskChar) THEN Return(Str(Repeat(maskChar.s, n)))
    ELSE Throw("TypeError")

\* the default parameter maskChar = '*' replaces undefined only
MaskDefault(maskChar) == IF maskChar = Undefined THEN Str(<<"*">>) ELSE maskChar

maskPhoneNumber(p, maskCharArg) ==
    LET maskChar == MaskDefault(maskCharArg)
    IN  IF ~isValidPhoneNumber(p) THEN Return(Null)
        ELSE LET formatted == formatPhoneNumber(p).s
                 length == Len(formatted)
             IN  IF length <= 4 THEN Return(Str(formatted))
                 ELSE LET firstPart == Substring(formatted, 0, 2)
                          lastPart == SubstringFrom(formatted, length - 2)
                          maskedPart == MaskRepeat(maskChar, length - 4)
                      IN  IF maskedPart.k = "throw" THEN maskedPart
                          ELSE Return(Str(firstPart \o maskedPart.v.s \o lastPart))

getAllFormats(p) ==
    IF ~isValidPhoneNumber(p) THEN Null
    ELSE Obj([local |-> getLocalNumber(p),
              countryCode |-> getCountryCodeNumber(p),
              international |-> formatPhoneNumber(p)])

isValidForProvider(p, provider) ==
    IF ~isValidPhoneNumber(p) THEN Return(Bool(FALSE))
    ELSE LET phoneProvider == getProvider(p)
             lower == ProviderToLowerCase(provider)
         IN  IF lower.k = "throw" THEN lower
             ELSE Return(Bool(phoneProvider = lower.v))

\* this.providers[key]: undefined when the table has no such key
ProvidersLookup(key) ==
    IF \E i \in 1..Len(providers) : providers[i].name = key
    THEN Arr((CHOOSE e \in {providers[i] : i \in 1..Len(providers)} :
                 e.name = key).prefixes)
    ELSE Undefined

getProviderPrefixes(provider) ==
    LET lower == ProviderToLowerCase(provider)
    IN  IF lower.k = "throw" THEN lower
        ELSE LET found == ProvidersLookup(lower.v.s)
             IN  Return(IF Falsy(found) THEN Null ELSE found)

getSupportedProviders == [i \in 1..Len(providers) |-> Str(providers[i].name)]

-----------------------------------------------------------------------------
(* The arguments the calls are checked on *)

\* the longest string enumerated character by character
MaxShortLen == 3

ShortAlphabet == {"+", "0", "7", "a"}

ShortStrings == UNION {[1..n -> ShortAlphabet] : n \in 0..MaxShortLen}

\* what precedes the subscriber number: nothing, 0, 256, +256 and malformed heads
Heads ==
    { <<>>, <<"0">>, <<"2", "5", "6">>, <<"+", "2", "5", "6">>,
      <<"+">>, <<"+", "1">>, <<"0", "0">>, <<"2", "5", "6", "0">> }

\* the first three digits of the subscriber number: one per listed prefix, and
\* unlisted and malformed ones
SubscriberStarts ==
    { <<"7", "5", "9">>, <<"7", "6", "1">>, <<"7", "7", "2">>, <<"7", "8", "3">>,
      <<"7", "0", "1">>, <<"7", "4", "4">>, <<"7", "9", "5">>, <<"7", "1", "6">>,
      <<"7", "2", "0">>, <<"3", "9", "1">>, <<"0", "7", "5">>, <<"0", "7", "1">>,
      <<"2", "5", "6">> }

\* the rest of the subscriber number: six digits, and one too few or too many
SubscriberEnds ==
    { <<"9", "8", "3", "8", "5", "3">>, <<"9", "8", "3", "8", "5">>,
      <<"9", "8", "3", "8", "5", "3", "1">> }

\* what a caller may write between the groups of digits
Separators == { <<>>, <<"-">> }

WrittenNumbers ==
    { h \o sep \o a \o sep \o b :
        h \in Heads, a \in SubscriberStarts, b \in SubscriberEnds, sep \in Separators }

\* the numbers the documentation and the tests use
DocumentedNumbers ==
    { <<"0", "7", "5", "9", "9", "8", "3", "8", "5", "3">>,
      <<"0", "7", "0", "1", "2", "3", "4", "5", "6", "7">>,
      <<"1", "2", "3">>, <<"+", "1", "2", "3">>,
      <<"i", "n", "v", "a", "l", "i", "d">> }

PhoneInputs ==
    {Str(s) : s \in ShortStrings \cup WrittenNumbers \cup DocumentedNumbers}
        \cup {Null, Undefined, Num(0), Num(759983853)}

ProviderInputs ==
    { Str(<<"m", "t", "n">>), Str(<<"M", "T", "N">>),
      Str(<<"a", "i", "r", "t", "e", "l">>),
      Str(<<"a", "f", "r", "i", "c", "e", "l", "l">>),
      Str(<<"u", "g", "a", "n", "d", "a", "T", "e", "l">>),
      Str(<<"v", "o", "d", "a">>), Null, Undefined }

MaskInputs ==
    { Undefined, Str(<<"*">>), Str(<<"#">>), Str(<<>>), Str(<<"*", "*">>),
      Null, Num(0) }

-----------------------------------------------------------------------------
(* The calls of PhoneNumberUtils: each call is one step *)

InitPhone ==
    /\ phone \in PhoneInputs
    /\ op = "none"
    /\ arg = Undefined
    /\ result = NotCalled
    /\ providerSeen = NotCalled
    \* PhoneNumberUtils holds no MarzPay instance: no credentials, no call
    /\ given = EmptyObject
    /\ config = [apiUser |-> Str(<<>>), apiKey |-> Str(<<>>)]
    /\ calls = [i \in Slots |-> [pc |-> "idle"]]
    /\ retry = NoRetry

Called(name, a, r) ==
    /\ op' = name
    /\ arg' = a
    /\ result' = r
    /\ UNCHANGED phone
    /\ UNCHANGED requestVars
    /\ UNCHANGED retry

CallFormatPhoneNumber ==
    /\ Called("formatPhoneNumber", Undefined, Return(formatPhoneNumber(phone)))
    /\ UNCHANGED providerSeen

CallIsValidPhoneNumber ==
    /\ Called("isValidPhoneNumber", Undefined, Return(Bool(isValidPhoneNumber(phone))))
    /\ UNCHANGED providerSeen

CallGetProvider ==
    /\ Called("getProvider", Undefined, Return(getProvider(phone)))
    /\ providerSeen' = IF providerSeen = NotCalled
                       THEN Return(getProvider(phone)) ELSE providerSeen

CallIsFromProvider ==
    /\ \E provider \in ProviderInputs :
          Called("isFromProvider", provider, isFromProvider(phone, provider))
    /\ UNCHANGED providerSeen

CallGetLocalNumber ==
    /\ Called("getLocalNumber", Undefined, Return(getLocalNumber(phone)))
    /\ UNCHANGED providerSeen

CallGetCountryCodeNumber ==
    /\ Called("getCountryCodeNumber", Undefined, Return(getCountryCodeNumber(phone)))
    /\ UNCHANGED providerSeen

CallMaskPhoneNumber ==
    /\ \E maskChar \in MaskInputs :
          Called("maskPhoneNumber", maskChar, maskPhoneNumber(phone, maskChar))
    /\ UNCHANGED providerSeen

CallGetAllFormats ==
    /\ Called("getAllFormats", Undefined, Return(getAllFormats(phone)))
    /\ UNCHANGED providerSeen

CallIsValidForProvider ==
    /\ \E provider \in ProviderInputs :
          Called("isValidForProvider", provider, isValidForProvider(phone, provider))
    /\ UNCHANGED providerSeen

CallGetProviderPrefixes ==
    /\ \E provider \in ProviderInputs :
          Called("getProviderPrefixes", provider, getProviderPrefixes(provider))
    /\ UNCHANGED providerSeen

NextPhone ==
    \/ CallFormatPhoneNumber
    \/ CallIsValidPhoneNumber
    \/ CallGetProvider
    \/ CallIsFromProvider
    \/ CallGetLocalNumber
    \/ CallGetCountryCodeNumber
    \/ CallMaskPhoneNumber
    \/ CallGetAllFormats
    \/ CallIsValidForProvider
    \/ CallGetProviderPrefixes

SpecPhone == InitPhone /\ [][NextPhone]_vars

-----------------------------------------------------------------------------
(* Properties of PhoneNumberUtils *)

\* ^\+256[0-9]{9}$
MatchesCanonical(v) ==
    /\ v.t = "string"
    /\ Len(v.s) = 13
    /\ v.s[1] = "+" /\ v.s[2] = "2" /\ v.s[3] = "5" /\ v.s[4] = "6"
    /\ \A i \in 5..13 : v.s[i] \in Digits

\* C1: formatPhoneNumber returns null or a string matching ^\+256[0-9]{9}$,
\* also for an input that starts with '+'.
C1_FormatIsCanonicalOrAbsent ==
    op = "formatPhoneNumber" =>
        /\ result.k = "return"
        /\ result.v = Null \/ MatchesCanonical(result.v)

\* the 9-digit subscriber number that a supported representation writes
IsDigitString(v, n) == v.t = "string" /\ Len(v.s) = n /\ AllDigits(v.s)

IsRepresentation(v) ==
    /\ v.t = "string"
    /\ \/ IsDigitString(v, 9)
       \/ IsDigitString(v, 10) /\ v.s[1] = "0"
       \/ IsDigitString(v, 12) /\ SubSeq(v.s, 1, 3) = <<"2", "5", "6">>
       \/ /\ Len(v.s) = 13
          /\ SubSeq(v.s, 1, 4) = <<"+", "2", "5", "6">>
          /\ AllDigits(SubSeq(v.s, 5, 13))

SubscriberOf(v) == SubSeq(v.s, Len(v.s) - 8, Len(v.s))

\* C2: the bare 9-digit number S, '0'+S, '256'+S and '+256'+S all normalise to
\* '+256'+S, for every S, also one that begins with '0' or '256'.
C2_AllRepresentationsAgree ==
    (op = "formatPhoneNumber" /\ IsRepresentation(phone)) =>
        result = Return(Str(<<"+", "2", "5", "6">> \o SubscriberOf(phone)))

\* the inputs the tests name as invalid
NamedInvalid ==
    { Str(<<"1", "2", "3">>), Str(<<"i", "n", "v", "a", "l", "i", "d">>),
      Str(<<>>), Null }

\* C3: isValidPhoneNumber(x) is true exactly when formatPhoneNumber(x) is present
\* and matches ^\+256[0-9]{9}$; '123', 'invalid', '' and null are invalid.
C3_ValidIffFormatCanonical ==
    op = "isValidPhoneNumber" =>
        /\ result.k = "return"
        /\ result.v.b <=> (formatPhoneNumber(phone) # Null
                            /\ MatchesCanonical(formatPhoneNumber(phone)))
        /\ phone \in NamedInvalid => ~result.v.b

C3_Witness ==
    /\ op = "isValidPhoneNumber"
    /\ phone = Str(<<"0", "7", "5", "9", "9", "8", "3", "8", "5", "3">>)
    /\ result = Return(Bool(TRUE))

\* C4: formatPhoneNumber is idempotent on its results: formatting a present
\* result again gives that result.
C4_FormatIdempotent ==
    (op = "formatPhoneNumber" /\ result.v # Null) =>
        formatPhoneNumber(result.v) = result.v

C4_Witness ==
    /\ op = "formatPhoneNumber"
    /\ phone = Str(<<"0", "-", "7", "5", "9", "-", "9", "8", "3", "8", "5", "3">>)
    /\ result.v = Str(<<"+", "2", "5", "6", "7", "5", "9", "9", "8", "3", "8", "5", "3">>)

\* C5: for a local-format input L ('0' and 9 digits), getLocalNumber(L) = L and
\* getLocalNumber(formatPhoneNumber(L)) = L.
C5_LocalRoundTrip ==
    (op = "getLocalNumber" /\ IsDigitString(phone, 10) /\ phone.s[1] = "0") =>
        /\ result = Return(phone)
        /\ getLocalNumber(formatPhoneNumber(phone)) = phone

C5_Witness ==
    /\ op = "getLocalNumber"
    /\ phone = Str(<<"0", "7", "0", "1", "2", "3", "4", "5", "6", "7">>)
    /\ result.v = phone

\* the masking invariant for the mask string m
Masked(r, canonical, m) ==
    /\ r.k = "return"
    /\ r.v.t = "string"
    /\ Len(r.v.s) = Len(canonical)
    /\ SubSeq(r.v.s, 1, 2) = SubSeq(canonical, 1, 2)
    /\ SubSeq(r.v.s, Len(r.v.s) - 1, Len(r.v.s))
          = SubSeq(canonical, Len(canonical) - 1, Len(canonical))
    /\ \A i \in 3..(Len(r.v.s) - 2) : <<r.v.s[i]>> = m

\* the mask the call uses: the string supplied, '*' when none is supplied
MaskOf(a) == IF a = Undefined THEN <<"*">> ELSE a.s

ListedPrefixes ==
    { <<"0", "7", "5">>, <<"0", "7", "6">>, <<"0", "7", "7">>, <<"0", "7", "8">>,
      <<"0", "7", "0">>, <<"0", "7", "4">>, <<"0", "7", "9">>, <<"0", "7", "1">> }

OwnerOf(prefix) ==
    CASE prefix \in { <<"0", "7", "5">>, <<"0", "7", "6">>,
                      <<"0", "7", "7">>, <<"0", "7", "8">> } -> <<"m", "t", "n">>
      [] prefix \in { <<"0", "7", "0">>, <<"0", "7", "4">> }
            -> <<"a", "i", "r", "t", "e", "l">>
      [] prefix = <<"0", "7", "9">> -> <<"a", "f", "r", "i", "c", "e", "l", "l">>
      [] prefix = <<"0", "7", "1">> -> <<"u", "g", "a", "n", "d", "a", "T", "e", "l">>

\* C7: for a valid number whose local form starts with a listed prefix,
\* getProvider returns the owner of the prefix, mtn for the doubly listed 075;
\* a repeated call returns what the first call returned.
C7_ProviderFirstMatch ==
    op = "getProvider" =>
        /\ result = providerSeen
        /\ (isValidPhoneNumber(phone)
              /\ SubSeq(getLocalNumber(phone).s, 1, 3) \in ListedPrefixes) =>
              result = Return(Str(OwnerOf(SubSeq(getLocalNumber(phone).s, 1, 3))))

\* C8: no operation of PhoneNumberUtils throws, whatever its arguments.
C8_NeverThrows ==
    op # "none" => result.k = "return"

-----------------------------------------------------------------------------
(* JavaScript objects and operators used by MarzPay *)

\* { ...a, ...b }: the own keys of b replace those of a, undefined values included
Merge(a, b) ==
    [k \in DOMAIN a \cup DOMAIN b |-> IF k \in DOMAIN b THEN b[k] ELSE a[k]]

\* o[key] of an object literal: undefined for a key it does not have
Get(o, key) == IF key \in DOMAIN o THEN o[key] ELSE Undefined

\* a || b
Or(a, b) == IF Falsy(a) THEN b ELSE a

\* ...v inside an object literal: the own keys of an object, nothing otherwise
Spread(v) == IF v.t = "object" THEN v.f ELSE EmptyObject

\* `${v}`
ToText(v) ==
    CASE v.t = "string" -> v.s
      [] v.t = "undefined" -> <<"undefined">>
      [] v.t = "null" -> <<"null">>
      [] v.t = "nan" -> <<"NaN">>
      [] v.t = "number" -> <<ToString(v.n)>>
      [] v.t = "boolean" -> IF v.b THEN <<"true">> ELSE <<"false">>
      [] OTHER -> <<"[object Object]">>

\* v[key] of any value: a TypeError on null and undefined
GetProp(v, key) ==
    IF v.t \in {"null", "undefined"} THEN Throw("TypeError")
    ELSE IF v.t = "object" THEN Return(Get(v.f, key))
    ELSE Return(Undefined)

-----------------------------------------------------------------------------
(* MarzPayError *)

\* super(message): the message as a string, '' when undefined
ErrorMessage(m) == IF m = Undefined THEN Str(<<>>) ELSE Str(ToText(m))

MarzPayError(message, code, status) ==
    [name |-> "MarzPayError", message |-> ErrorMessage(message),
     code |-> code, status |-> status]

\* an error of another class, as fetch, response.json() and the runtime throw them
OtherError(name, message) == [name |-> name, message |-> Str(message)]

isValidationError(e) == e.status >= 400 /\ e.status < 500

isServerError(e) == e.status >= 500

isNetworkError(e) == e.code = Str(<<"NETWORK_ERROR">>)

-----------------------------------------------------------------------------
(* MarzPay: constructor, getAuthHeader, request *)

Construct(cfg) ==
    Merge([apiUser |-> Or(Get(cfg, "apiUser"), Str(<<>>)),
           apiKey |-> Or(Get(cfg, "apiKey"), Str(<<>>)),
           baseUrl |-> Or(Get(cfg, "baseUrl"),
                          Str(<<"https://wallet.wearemarz.com/api/v1">>)),
           timeout |-> Or(Get(cfg, "timeout"), Num(30000))],
          cfg)

\* new MarzPay(cfg): the constructor has no throw statement and gives an
\* instance with this.config
New(cfg) == Return(Construct(cfg))

\* the pieces of text that hold a character above U+00FF
NonLatin1 == {"U+043A"}

\* btoa(s): an InvalidCharacterError outside Latin-1, else the encoding of s
Btoa(s) ==
    IF \E i \in 1..Len(s) : s[i] \in NonLatin1
    THEN Throw(OtherError("InvalidCharacterError", <<"Invalid character">>))
    ELSE Return(<<"base64(">> \o s \o <<")">>)

getAuthHeader(cfg) ==
    LET credentials == ToText(Get(cfg, "apiUser")) \o <<":">>
                          \o ToText(Get(cfg, "apiKey"))
        encoded == Btoa(credentials)
    IN  IF encoded.k = "throw" THEN encoded
        ELSE Return(Str(<<"Basic ">> \o encoded.v))

\* a property that refers back to the object that holds it
Cycle == [t |-> "cycle"]

\* JSON.stringify(v): a TypeError on a circular structure, else the JSON text
JsonStringify(v) ==
    IF v.t = "object" /\ \E k \in DOMAIN v.f : v.f[k] = Cycle
    THEN Throw(OtherError("TypeError", <<"Converting circular structure to JSON">>))
    ELSE Return([t |-> "string", s |-> <<"JSON.stringify">>, of |-> v])

\* the second argument of fetch, as request() builds it, or what building it
\* throws
FetchConfig(cfg, options, auth) ==
    LET headers == Merge(("Content-Type" :> Str(<<"application/json">>))
                            @@ ("Authorization" :> auth),
                         Spread(Get(options, "headers")))
        built == Merge([method |-> Or(Get(options, "method"), Str(<<"GET">>)),
                        headers |-> Obj(headers),
                        timeout |-> Get(cfg, "timeout")],
                       options)
        text == JsonStringify(Get(options, "body"))
    IN  IF Falsy(Get(options, "body")) THEN Return(built)
        ELSE IF text.k = "throw" THEN text
        ELSE Return(Merge(built, [body |-> text.v]))

\* response.ok
Ok(status) == status >= 200 /\ status <= 299

Resolve(v) == [k |-> "resolve", v |-> v]
Reject(e) == [k |-> "reject", e |-> e]

\* the rethrow of the catch block that keeps the error as it is
Catch_Rethrow(error) == Reject(error)

\* the catch block of request()
Catch(error) ==
    IF error.name = "MarzPayError" THEN Reject(error)
    ELSE Reject(MarzPayError(error.message, Str(<<"NETWORK_ERROR">>), 0))

\* what reading a property of null throws
NullPropertyError ==
    OtherError("TypeError", <<"Cannot read properties of null (reading 'message')">>)

\* the try block of request() once response.json() has given `data`
HandleData(status, data) ==
    IF ~Ok(status)
    THEN LET message == GetProp(data, "message")
             code == GetProp(data, "error_code")
         IN  IF message.k = "throw" THEN Catch(NullPropertyError)
             ELSE Catch(MarzPayError(Or(message.v, Str(<<"Request failed">>)),
                                     Or(code.v, Str(<<"REQUEST_FAILED">>)),
                                     status))
    ELSE Resolve(data)

-----------------------------------------------------------------------------
(* The configurations, requests and responses the gateway is checked on *)

CallerConfigs ==
    { [apiUser |-> Str(<<"test-api-user">>), apiKey |-> Str(<<"test-api-key">>)],
      [apiUser |-> Str(<<"test-api-user">>), apiKey |-> Str(<<"test-api-key">>),
       baseUrl |-> Str(<<"https://custom.api.com">>), timeout |-> Num(60000)],
      [apiUser |-> Str(<<"test-api-user">>), apiKey |-> Str(<<"test-api-key">>),
       baseUrl |-> Undefined, timeout |-> Undefined],
      [apiUser |-> Str(<<"user">>), apiKey |-> Str(<<"U+043A">>)],
      [apiUser |-> Str(<<"user">>)],
      [apiKey |-> Str(<<"key">>)],
      EmptyObject }

Endpoints == { <<"/test-endpoint">> }

MethodInputs ==
    { Undefined, Str(<<"GET">>), Str(<<"DELETE">>), Str(<<"POST">>), Str(<<"PUT">>) }

\* no body, an object, and an object that refers to itself
BodyInputs ==
    { Undefined, Obj([test |-> Str(<<"data">>)]), Obj([self |-> Cycle]) }

HeaderInputs ==
    { Undefined,
      Obj("X-Request-Id" :> Str(<<"abc">>)),
      Obj("Authorization" :> Str(<<"Bearer token">>)) }

\* an options object: each of method, body and headers present or left out
OptionsOf(method, body, headers) ==
    LET m == IF method = Undefined THEN EmptyObject ELSE [method |-> method]
        b == IF body = Undefined THEN EmptyObject ELSE [body |-> body]
        h == IF headers = Undefined THEN EmptyObject ELSE [headers |-> headers]
    IN  Merge(Merge(m, b), h)

OptionsInputs ==
    { OptionsOf(m, b, h) : m \in MethodInputs, b \in BodyInputs, h \in HeaderInputs }

Statuses == {200, 302, 400, 404, 500}

\* the JSON values a response body decodes to
JsonBodies ==
    { Obj([success |-> Bool(TRUE), data |-> Obj([message |-> Str(<<"Success">>)])]),
      Obj([message |-> Str(<<"Amount must be between 500 and 10,000,000 UGX">>),
           error_code |-> Str(<<"INVALID_AMOUNT">>)]),
      Obj([success |-> Bool(FALSE),
           error |-> Obj([message |-> Str(<<"API Error">>),
                          code |-> Str(<<"API_ERROR">>)])]),
      Obj([message |-> Str(<<"Service unavailable">>)]),
      Obj([error_code |-> Str(<<"RATE_LIMIT_EXCEEDED">>)]),
      Obj([message |-> Str(<<"Upstream unreachable">>),
           error_code |-> Str(<<"NETWORK_ERROR">>)]),
      Obj([message |-> Str(<<>>), error_code |-> Null]),
      Arr(<<>>),
      Str(<<"Bad gateway">>),
      Null }

\* a body that JSON cannot decode
TextBodies == { <<"Plain text response">> }

ResponseBodies ==
    {[decodable |-> TRUE, value |-> v] : v \in JsonBodies}
        \cup {[decodable |-> FALSE, text |-> x] : x \in TextBodies}

\* what fetch rejects with when no response arrives
TransportErrors ==
    { OtherError("TypeError", <<"Network error">>),
      OtherError("TypeError", <<"Failed to fetch">>),
      OtherError("AbortError", <<"The operation was aborted">>) }

\* what response.json() rejects with on a body it cannot decode
DecodeError == OtherError("SyntaxError", <<"Invalid JSON">>)

-----------------------------------------------------------------------------
(* MarzPay.request, one step per await *)

InitRequest ==
    /\ given \in CallerConfigs
    /\ config = New(given).v
    /\ calls = [i \in Slots |-> [pc |-> "idle"]]
    /\ phone = Undefined
    /\ op = "none"
    /\ arg = Undefined
    /\ result = NotCalled
    /\ providerSeen = NotCalled
    /\ retry = NoRetry

\* request(endpoint, options) up to its first await: the URL, the headers and
\* the fetch configuration are built and fetch is called; a throw while
\* building them leaves the async function before fetch
Started(endpoint, options) ==
    LET auth == getAuthHeader(config)
        built == IF auth.k = "throw" THEN auth
                 ELSE FetchConfig(config, options, auth.v)
    IN  IF built.k = "throw"
        THEN [pc |-> "done", endpoint |-> endpoint, options |-> options,
              fetches |-> 0, sent |-> NotCalled, response |-> NotCalled,
              transport |-> NotCalled, outcome |-> Reject(built.e)]
        ELSE [pc |-> "fetching", endpoint |-> endpoint, options |-> options,
              fetches |-> 1,
              sent |-> [url |-> ToText(Get(config, "baseUrl")) \o endpoint,
                        config |-> built.v],
              response |-> NotCalled, transport |-> NotCalled,
              outcome |-> NotCalled]

\* request(endpoint, options) that keeps the options of the call in this.config
Request_StoresOptions(i, endpoint, options) ==
    /\ calls[i].pc \in {"idle", "done"}
    /\ calls' = [calls EXCEPT ![i] = Started(endpoint, options)]
    /\ config' = Merge(config, options)
    /\ UNCHANGED given
    /\ UNCHANGED phoneVars
    /\ UNCHANGED retry

\* caller i calls request(endpoint, options)
Request(i, endpoint, options) ==
    /\ calls[i].pc \in {"idle", "done"}
    /\ calls' = [calls EXCEPT ![i] = Started(endpoint, options)]
    /\ UNCHANGED <<given, config>>
    /\ UNCHANGED phoneVars
    /\ UNCHANGED retry

\* fetch resolves: a response has arrived, and response.json() is awaited
FetchResolves(i, status, body) ==
    /\ calls[i].pc = "fetching"
    /\ calls' = [calls EXCEPT ![i].pc = "decoding",
                              ![i].response = [status |-> status, body |-> body]]
    /\ UNCHANGED <<given, config>>
    /\ UNCHANGED phoneVars
    /\ UNCHANGED retry

\* fetch rejects and the call is made a second time
FetchRejects_Retry(i, error) ==
    /\ calls[i].pc = "fetching"
    /\ calls' = IF calls[i].fetches = 1
                THEN [calls EXCEPT ![i].fetches = 2]
                ELSE [calls EXCEPT ![i].pc = "done", ![i].transport = error,
                                   ![i].outcome = Catch(error)]
    /\ UNCHANGED <<given, config>>
    /\ UNCHANGED phoneVars
    /\ UNCHANGED retry

\* fetch rejects: no response; the catch block runs
FetchRejects(i, error) ==
    /\ calls[i].pc = "fetching"
    /\ calls' = [calls EXCEPT ![i].pc = "done", ![i].transport = error,
                              ![i].outcome = Catch(error)]
    /\ UNCHANGED <<given, config>>
    /\ UNCHANGED phoneVars
    /\ UNCHANGED retry

\* response.json() resolves with the decoded body; the rest of the try block runs
JsonResolves(i) ==
    /\ calls[i].pc = "decoding"
    /\ calls[i].response.body.decodable
    /\ calls' = [calls EXCEPT ![i].pc = "done",
                              ![i].outcome = HandleData(calls[i].response.status,
                                                        calls[i].response.body.value)]
    /\ UNCHANGED <<given, config>>
    /\ UNCHANGED phoneVars
    /\ UNCHANGED retry

\* response.json() rejects; the catch block runs
JsonRejects(i) ==
    /\ calls[i].pc = "decoding"
    /\ ~calls[i].response.body.decodable
    /\ calls' = [calls EXCEPT ![i].pc = "done", ![i].outcome = Catch(DecodeError)]
    /\ UNCHANGED <<given, config>>
    /\ UNCHANGED phoneVars
    /\ UNCHANGED retry

\* one caller, one call after the other
NextRequest ==
    \/ \E endpoint \in Endpoints, options \in OptionsInputs :
          Request(1, endpoint, options)
    \/ \E status \in Statuses, body \in ResponseBodies :
          FetchResolves(1, status, body)
    \/ \E error \in TransportErrors : FetchRejects(1, error)
    \/ JsonResolves(1)
    \/ JsonRejects(1)

SpecRequest == InitRequest /\ [][NextRequest]_vars

-----------------------------------------------------------------------------
(* MarzPay.request called by several callers, their calls overlapping *)

OverlapConfigs ==
    { [apiUser |-> Str(<<"test-api-user">>), apiKey |-> Str(<<"test-api-key">>)],
      [apiUser |-> Str(<<"test-api-user">>), apiKey |-> Str(<<"test-api-key">>),
       baseUrl |-> Str(<<"https://custom.api.com">>), timeout |-> Num(60000)] }

OverlapOptions ==
    { EmptyObject,
      OptionsOf(Str(<<"POST">>), Obj([test |-> Str(<<"data">>)]), Undefined),
      OptionsOf(Str(<<"POST">>), Obj([self |-> Cycle]), Undefined) }

OverlapResponses ==
    { [status |-> 200,
       body |-> [decodable |-> TRUE,
                 value |-> Obj([success |-> Bool(TRUE),
                                data |-> Obj([message |-> Str(<<"Success">>)])])]],
      [status |-> 400,
       body |-> [decodable |-> TRUE,
                 value |-> Obj([message |-> Str(<<"Service unavailable">>)])]],
      [status |-> 200,
       body |-> [decodable |-> FALSE, text |-> <<"Plain text response">>]] }

InitOverlap ==
    /\ given \in OverlapConfigs
    /\ config = New(given).v
    /\ calls = [i \in Slots |-> [pc |-> "idle"]]
    /\ phone = Undefined
    /\ op = "none"
    /\ arg = Undefined
    /\ result = NotCalled
    /\ providerSeen = NotCalled
    /\ retry = NoRetry

\* any caller may call request() and any awaited promise may settle, in any order
NextOverlap ==
    \E i \in Slots :
        \/ \E endpoint \in Endpoints, options \in OverlapOptions :
              Request(i, endpoint, options)
        \/ \E r \in OverlapResponses : FetchResolves(i, r.status, r.body)
        \/ FetchRejects(i, OtherError("TypeError", <<"Network error">>))
        \/ JsonResolves(i)
        \/ JsonRejects(i)

SpecOverlap == InitOverlap /\ [][NextOverlap]_vars

-----------------------------------------------------------------------------
(* MarzPay.setCredentials among calls of request() *)

\* the credentials of the constructor and of the later setCredentials calls
ConstructedCredentials ==
    [apiUser |-> Str(<<"test-api-user">>), apiKey |-> Str(<<"test-api-key">>)]

RotatedCredentials ==
    { [apiUser |-> Str(<<"new-user">>), apiKey |-> Str(<<"new-key">>)],
      [apiUser |-> Str(<<"other-user">>), apiKey |-> Str(<<"other-key">>)] }

RotateOptions ==
    { EmptyObject,
      OptionsOf(Str(<<"POST">>), Obj([test |-> Str(<<"data">>)]), Undefined),
      OptionsOf(Undefined, Undefined, Obj("X-Request-Id" :> Str(<<"abc">>))) }

RotateResponses == OverlapResponses

InitRotate ==
    /\ given = ConstructedCredentials
    /\ config = New(given).v
    /\ calls = [i \in Slots |-> [pc |-> "idle"]]
    /\ phone = Undefined
    /\ op = "none"
    /\ arg = Undefined
    /\ result = NotCalled
    /\ providerSeen = NotCalled
    /\ retry = NoRetry

\* setCredentials(apiUser, apiKey): both assignments are made in one turn of
\* the event loop, no other code of the program runs between them
SetCredentials(apiUser, apiKey) ==
    /\ config' = [config EXCEPT !.apiUser = apiUser, !.apiKey = apiKey]
    /\ op' = "setCredentials"
    /\ arg' = Arr(<<apiUser, apiKey>>)
    /\ UNCHANGED <<given, calls, phone, result, providerSeen, retry>>

NextRotate ==
    \/ \E c \in RotatedCredentials : SetCredentials(c.apiUser, c.apiKey)
    \/ \E i \in Slots :
          \/ \E endpoint \in Endpoints, options \in RotateOptions :
                Request(i, endpoint, options)
          \/ \E r \in RotateResponses : FetchResolves(i, r.status, r.body)
          \/ FetchRejects(i, OtherError("TypeError", <<"Network error">>))
          \/ JsonResolves(i)
          \/ JsonRejects(i)

SpecRotate == InitRotate /\ [][NextRotate]_vars

-----------------------------------------------------------------------------
(* GeneralUtils, as the domain modules use it through this.marzpay.utils *)

isValidUUID(uuid) ==
    IF Falsy(uuid) \/ ~IsString(uuid) THEN FALSE
    ELSE /\ Len(uuid.s) = 36
         /\ \A i \in 1..36 :
              CASE i \in {9, 14, 19, 24} -> uuid.s[i] = "-"
                [] i = 15 -> uuid.s[i] \in {"1", "2", "3", "4", "5"}
                [] i = 20 -> uuid.s[i] \in {"8", "9", "a", "b", "A", "B"}
                [] OTHER -> uuid.s[i] \in Digits \cup {"a", "b", "c", "d", "e", "f",
                                                       "A", "B", "C", "D", "E", "F"}

\* Object.entries(params): the keys of the parameter objects of the SDK, in the
\* order its object literals write them
QueryKeys ==
    << "type", "provider", "status", "event_type", "operation",
       "page", "per_page", "start_date", "end_date" >>

buildQueryString(params) ==
    IF Falsy(params) \/ params.t # "object" THEN <<>>
    ELSE LET kept == SelectSeq(QueryKeys,
                        LAMBDA k : /\ k \in DOMAIN params.f
                                   /\ params.f[k] \notin {Null, Undefined, Str(<<>>)})
             RECURSIVE Join(_)
             Join(i) == IF i > Len(kept) THEN <<>>
                        ELSE (IF i > 1 THEN <<"&">> ELSE <<>>)
                               \o <<kept[i], "=">> \o ToText(params.f[kept[i]])
                               \o Join(i + 1)
         IN  Join(1)

-----------------------------------------------------------------------------
(* The domain modules: what an operation does before its first await *)

\* const { ... } = params
Destructure(params) ==
    IF params.t \in {"null", "undefined"}
    THEN Throw(OtherError("TypeError", <<"Cannot destructure property">>))
    ELSE Return(Spread(params))

\* return this.marzpay.request(endpoint, options): the one call the operation
\* issues now
Ask(endpoint, options) == Return(<<[endpoint |-> endpoint, options |-> options]>>)

\* throw new MarzPayError(message, code, 400)
Invalid(message, code) == Throw(MarzPayError(Str(<<message>>), Str(<<code>>), 400))

(* ServicesAPI *)

validateServiceParams(params) ==
    LET d == Destructure(params)
    IN  IF d.k = "throw" THEN d
        ELSE IF /\ Get(d.v, "type") # Undefined
                /\ Get(d.v, "type") \notin {Str(<<"collection">>), Str(<<"withdrawal">>)}
        THEN Invalid("Invalid service type", "INVALID_TYPE")
        ELSE IF /\ Get(d.v, "provider") # Undefined
                /\ Get(d.v, "provider") \notin {Str(<<"mtn">>), Str(<<"airtel">>)}
        THEN Invalid("Invalid provider", "INVALID_PROVIDER")
        ELSE IF /\ Get(d.v, "status") # Undefined
                /\ Get(d.v, "status") \notin {Str(<<"active">>), Str(<<"inactive">>)}
        THEN Invalid("Invalid service status", "INVALID_STATUS")
        ELSE Return(Undefined)

getServices(params) ==
    LET p == IF params = Undefined THEN Obj(EmptyObject) ELSE params
        v == validateServiceParams(p)
    IN  IF v.k = "throw" THEN v
        ELSE Ask(<<"/services?">> \o buildQueryString(p), EmptyObject)

getService(uuid) ==
    IF Falsy(uuid) THEN Invalid("Service UUID is required", "MISSING_UUID")
    ELSE IF ~isValidUUID(uuid) THEN Invalid("Invalid UUID format", "INVALID_UUID")
    ELSE Ask(<<"/services/">> \o ToText(uuid), EmptyObject)

getActive(params) ==
    getServices(Obj(Merge([status |-> Str(<<"active">>)], Spread(params))))

\* the checks of compareServices, then Promise.all over getService(uuid)
compareServices(serviceUuids) ==
    IF serviceUuids.t # "array" \/ Len(serviceUuids.items) < 2
    THEN Invalid("At least 2 service UUIDs are required for comparison",
                 "INSUFFICIENT_SERVICES")
    ELSE IF Len(serviceUuids.items) > 5
    THEN Invalid("Maximum 5 services can be compared at once", "TOO_MANY_SERVICES")
    ELSE IF \E i \in 1..Len(serviceUuids.items) : ~isValidUUID(serviceUuids.items[i])
    THEN LET bad == CHOOSE i \in 1..Len(serviceUuids.items) :
                        /\ ~isValidUUID(serviceUuids.items[i])
                        /\ \A j \in 1..(i - 1) : isValidUUID(serviceUuids.items[j])
         IN  Throw(MarzPayError(Str(<<"Invalid UUID format: ">>
                                       \o ToText(serviceUuids.items[bad])),
                                Str(<<"INVALID_UUID">>), 400))
    ELSE Return([i \in 1..Len(serviceUuids.items) |->
                    getService(serviceUuids.items[i]).v[1]])

(* WebhooksAPI *)

validateWebhookParams(params) ==
    LET d == Destructure(params)
    IN  IF d.k = "throw" THEN d
        ELSE IF /\ Get(d.v, "status") # Undefined
                /\ Get(d.v, "status") \notin {Str(<<"active">>), Str(<<"inactive">>)}
        THEN Invalid("Invalid webhook status", "INVALID_STATUS")
        ELSE IF /\ Get(d.v, "event_type") # Undefined
                /\ Get(d.v, "event_type") \notin
                      { Str(<<"success">>), Str(<<"failure">>),
                        Str(<<"collection.completed">>), Str(<<"collection.failed">>),
                        Str(<<"collection.cancelled">>) }
        THEN Invalid("Invalid event type", "INVALID_EVENT_TYPE")
        ELSE Return(Undefined)

getWebhooks(params) ==
    LET p == IF params = Undefined THEN Obj(EmptyObject) ELSE params
        v == validateWebhookParams(p)
    IN  IF v.k = "throw" THEN v
        ELSE Ask(<<"/webhooks?">> \o buildQueryString(p), EmptyObject)

deleteWebhook(uuid) ==
    IF Falsy(uuid) THEN Invalid("Webhook UUID is required", "MISSING_UUID")
    ELSE IF ~isValidUUID(uuid) THEN Invalid("Invalid UUID format", "INVALID_UUID")
    ELSE Ask(<<"/webhooks/">> \o ToText(uuid), [method |-> Str(<<"DELETE">>)])

(* CollectionsAPI *)

\* the number a string of decimal digits writes
RECURSIVE ParseDigits(_)
ParseDigits(s) ==
    IF s = <<>> THEN 0
    ELSE 10 * ParseDigits(SubSeq(s, 1, Len(s) - 1))
           + (CHOOSE n \in 0..9 : ToString(n) = s[Len(s)])

\* the number n + d/10, for d in 1..9 and n >= 0
Frac(n, d) == [t |-> "number", n |-> n, tenths |-> d]

\* Number.isInteger(v)
IsInteger(v) == v.t = "number" /\ "tenths" \notin DOMAIN v

\* ten times a number, an integer for the numbers of the model
Scaled(x) == 10 * x.n + (IF "tenths" \in DOMAIN x THEN x.tenths ELSE 0)

\* 10^k
RECURSIVE Pow10(_)
Pow10(k) == IF k = 0 THEN 1 ELSE 10 * Pow10(k - 1)

\* Number(s) of a string written in characters: '' is 0; decimal digits with an
\* optional sign, a fraction or an exponent; NaN for any other text. A fraction
\* is kept as tenths, at least one tenth when it is not zero, which is what a
\* comparison with a whole number depends on.
StringToNumber(s) ==
    LET body == IF s # <<>> /\ Head(s) = "-" THEN Tail(s) ELSE s
        sign == IF s # <<>> /\ Head(s) = "-" THEN -1 ELSE 1
        Splits(c) == {k \in 2..(Len(body) - 1) :
                        /\ body[k] = c
                        /\ AllDigits(SubSeq(body, 1, k - 1))
                        /\ AllDigits(SubSeq(body, k + 1, Len(body)))}
        Left(k) == ParseDigits(SubSeq(body, 1, k - 1))
        Right(k) == ParseDigits(SubSeq(body, k + 1, Len(body)))
    IN  IF s = <<>> THEN Num(0)
        ELSE IF body # <<>> /\ AllDigits(body) THEN Num(sign * ParseDigits(body))
        ELSE IF sign = 1 /\ Splits(".") # {}
        THEN LET k == CHOOSE k \in Splits(".") : TRUE
                 first == ParseDigits(<<body[k + 1]>>)
             IN  IF Right(k) = 0 THEN Num(Left(k))
                 ELSE Frac(Left(k), IF first = 0 THEN 1 ELSE first)
        ELSE IF Splits("e") # {}
        THEN LET k == CHOOSE k \in Splits("e") : TRUE
             IN  Num(sign * Left(k) * Pow10(Right(k)))
        ELSE NaN

\* the number a value is converted to when it is compared with a number
RECURSIVE ToNumber(_)
ToNumber(v) ==
    CASE v.t = "number" -> v
      [] v.t = "string" -> StringToNumber(v.s)
      [] v.t = "null" -> Num(0)
      [] v.t = "boolean" -> Num(IF v.b THEN 1 ELSE 0)
      [] v.t = "array" /\ v.items = <<>> -> Num(0)
      [] v.t = "array" /\ Len(v.items) = 1 -> ToNumber(v.items[1])
      [] OTHER -> NaN

\* a < b of JavaScript, one side being a number: false when either is NaN
Lt(a, b) ==
    /\ ToNumber(a) # NaN
    /\ ToNumber(b) # NaN
    /\ Scaled(ToNumber(a)) < Scaled(ToNumber(b))

\* a <= b
Le(a, b) ==
    /\ ToNumber(a) # NaN
    /\ ToNumber(b) # NaN
    /\ Scaled(ToNumber(a)) <= Scaled(ToNumber(b))

\* parseInt(v): the integer the longest prefix of String(v) writes in decimal
\* digits (after an optional sign), NaN when there is no such prefix
ParseInt(v) ==
    LET IntegerPrefix(s) ==
            LET body == IF s # <<>> /\ Head(s) = "-" THEN Tail(s) ELSE s
                n == CHOOSE n \in 0..Len(body) :
                        /\ AllDigits(SubSeq(body, 1, n))
                        /\ n < Len(body) => body[n + 1] \notin Digits
            IN  IF n = 0 THEN NaN
                ELSE Num((IF body = s THEN 1 ELSE -1) * ParseDigits(SubSeq(body, 1, n)))
    IN  CASE v.t = "number" -> Num(v.n)
          [] v.t = "string" -> IntegerPrefix(v.s)
          [] OTHER -> NaN

validateCollectionParams(params) ==
    LET d == Destructure(params)
    IN  IF d.k = "throw" THEN d
        ELSE LET amount == Get(d.v, "amount")
                 phoneNumber == Get(d.v, "phoneNumber")
                 reference == Get(d.v, "reference")
             IN  IF Falsy(amount) \/ Lt(amount, Num(500)) \/ Lt(Num(10000000), amount)
                 THEN Invalid("Amount must be between 500 and 10,000,000 UGX",
                              "INVALID_AMOUNT")
                 ELSE IF Falsy(phoneNumber)
                 THEN Invalid("Phone number is required", "MISSING_PHONE")
                 ELSE IF ~isValidPhoneNumber(phoneNumber)
                 THEN Invalid("Invalid phone number format", "INVALID_PHONE")
                 ELSE IF Falsy(reference)
                 THEN Invalid("Reference is required", "MISSING_REFERENCE")
                 ELSE IF ~isValidUUID(reference)
                 THEN Invalid("Reference must be a valid UUID4", "INVALID_REFERENCE")
                 ELSE Return(Undefined)

collectMoney(params) ==
    LET d == Destructure(params)
        v == validateCollectionParams(params)
        Default(value, default) == IF value = Undefined THEN default ELSE value
    IN  IF d.k = "throw" THEN d
        ELSE IF v.k = "throw" THEN v
        ELSE Ask(<<"/collect-money">>,
                 [method |-> Str(<<"POST">>),
                  body |-> Obj([amount |-> ParseInt(Get(d.v, "amount")),
                                phone_number |->
                                    formatPhoneNumber(Get(d.v, "phoneNumber")),
                                reference |-> Get(d.v, "reference"),
                                description |->
                                    Default(Get(d.v, "description"), Null),
                                callback_url |->
                                    Default(Get(d.v, "callbackUrl"), Null),
                                country |->
                                    Default(Get(d.v, "country"), Str(<<"UG">>))])])

\* CollectionsAPI.isValidAmount
isValidAmount(amount) == Le(Num(500), amount) /\ Le(amount, Num(10000000))

\* CollectionsAPI.getLimits
getLimits == [min |-> Num(500), max |-> Num(10000000), currency |-> Str(<<"UGX">>)]

\* CollectionsAPI.isValidReference
isValidReference(reference) == Bool(isValidUUID(reference))

(* Utils of MarzPay, which DisbursementsAPI reaches through this.marzpay.utils *)

\* phone.replace(/\D/g, ''), then the if/else-if chain and the leading '+'
Utils_formatPhoneNumber(p) ==
    IF Falsy(p) THEN Return(Null)
    ELSE IF ~IsString(p)
    THEN Throw(OtherError("TypeError", <<"phone.replace is not a function">>))
    ELSE LET digits == SelectSeq(p.s, LAMBDA c : c \in Digits)
             cleaned == IF StartsWith(digits, <<"0">>)
                        THEN <<"2", "5", "6">> \o SubstringFrom(digits, 1)
                        ELSE IF StartsWith(digits, <<"2", "5", "6">>) THEN digits
                        ELSE IF Len(digits) = 9 THEN <<"2", "5", "6">> \o digits
                        ELSE digits
         IN  Return(Str(<<"+">> \o cleaned))

Utils_isValidPhoneNumber(p) ==
    IF Falsy(p) THEN Return(FALSE)
    ELSE LET formatted == Utils_formatPhoneNumber(p)
         IN  IF formatted.k = "throw" THEN formatted
             ELSE Return(PatternInternational(formatted.v.s))

(* DisbursementsAPI *)

\* reference.trim(): without the white space at both ends
Trim(s) ==
    LET inner == {i \in 1..Len(s) : s[i] # " "}
    IN  IF inner = {} THEN <<>>
        ELSE SubSeq(s, CHOOSE i \in inner : \A j \in inner : i <= j,
                       CHOOSE i \in inner : \A j \in inner : j <= i)

validateDisbursementParams(params) ==
    LET d == Destructure(params)
    IN  IF d.k = "throw" THEN d
        ELSE LET amount == Get(d.v, "amount")
                 phoneNumber == Get(d.v, "phoneNumber")
                 reference == Get(d.v, "reference")
             IN  IF Falsy(amount) \/ Lt(amount, Num(1000)) \/ Lt(Num(500000), amount)
                 THEN Invalid("Amount must be between 1,000 and 500,000 UGX",
                              "INVALID_AMOUNT")
                 ELSE IF Falsy(phoneNumber)
                 THEN Invalid("Phone number is required", "MISSING_PHONE")
                 ELSE IF Utils_isValidPhoneNumber(phoneNumber).k = "throw"
                 THEN Utils_isValidPhoneNumber(phoneNumber)
                 ELSE IF ~Utils_isValidPhoneNumber(phoneNumber).v
                 THEN Invalid("Invalid phone number format", "INVALID_PHONE")
                 ELSE IF Falsy(reference)
                 THEN Invalid("Reference is required", "MISSING_REFERENCE")
                 ELSE IF ~IsString(reference) \/ Trim(reference.s) = <<>>
                 THEN Invalid("Reference must be a non-empty string",
                              "INVALID_REFERENCE")
                 ELSE IF Len(reference.s) > 100
                 THEN Invalid("Reference must be less than 100 characters",
                              "REFERENCE_TOO_LONG")
                 ELSE Return(Undefined)

sendMoney(params) ==
    LET d == Destructure(params)
        v == validateDisbursementParams(params)
        Default(value, default) == IF value = Undefined THEN default ELSE value
    IN  IF d.k = "throw" THEN d
        ELSE IF v.k = "throw" THEN v
        ELSE Ask(<<"/send-money">>,
                 [method |-> Str(<<"POST">>),
                  body |-> Obj([amount |-> ParseInt(Get(d.v, "amount")),
                                phone_number |->
                                    Utils_formatPhoneNumber(Get(d.v, "phoneNumber")).v,
                                reference |-> Get(d.v, "reference"),
                                description |->
                                    Default(Get(d.v, "description"), Null),
                                callback_url |->
                                    Default(Get(d.v, "callbackUrl"), Null),
                                country |->
                                    Default(Get(d.v, "country"), Str(<<"UG">>))])])

\* DisbursementsAPI.isValidAmount
Disbursements_isValidAmount(amount) == Le(Num(1000), amount) /\ Le(amount, Num(500000))

\* DisbursementsAPI.getLimits
Disbursements_getLimits ==
    [min |-> Num(1000), max |-> Num(500000), currency |-> Str(<<"UGX">>)]

\* DisbursementsAPI.isValidReference: reference && typeof ... && ... && ...
Disbursements_isValidReference(reference) ==
    IF Falsy(reference) THEN reference
    ELSE Bool(/\ IsString(reference)
              /\ Trim(reference.s) # <<>>
              /\ Len(reference.s) <= 100)

(* BalanceAPI *)

\* new Date(dateString) is a valid date and dateString.match(/^\d{4}-\d{2}-\d{2}$/)
isValidDate(dateString) ==
    CASE dateString.t = "string" ->
            Return(/\ Len(dateString.s) = 10
                   /\ \A i \in 1..10 : IF i \in {5, 8} THEN dateString.s[i] = "-"
                                       ELSE dateString.s[i] \in Digits
                   /\ ParseDigits(SubSeq(dateString.s, 6, 7)) \in 1..12
                   /\ ParseDigits(SubSeq(dateString.s, 9, 10)) \in 1..31)
      [] dateString.t \in {"number", "boolean", "null"} ->
            Throw(OtherError("TypeError", <<"dateString.match is not a function">>))
      [] OTHER -> Return(FALSE)

validateBalanceHistoryParams(params) ==
    LET d == Destructure(params)
        DateNumber(v) == ParseDigits(SelectSeq(v.s, LAMBDA c : c # "-"))
    IN  IF d.k = "throw" THEN d
        ELSE LET page == Get(d.v, "page")
                 per_page == Get(d.v, "per_page")
                 operation == Get(d.v, "operation")
                 start_date == Get(d.v, "start_date")
                 end_date == Get(d.v, "end_date")
             IN  IF page # Undefined /\ (~IsInteger(page) \/ page.n < 1)
                 THEN Invalid("Page must be a positive integer", "INVALID_PAGE")
                 ELSE IF /\ per_page # Undefined
                         /\ (~IsInteger(per_page) \/ per_page.n < 1 \/ per_page.n > 100)
                 THEN Invalid("Per page must be between 1 and 100", "INVALID_PER_PAGE")
                 ELSE IF /\ operation # Undefined
                         /\ operation \notin {Str(<<"credit">>), Str(<<"debit">>)}
                 THEN Invalid("Operation must be either \"credit\" or \"debit\"",
                              "INVALID_OPERATION")
                 ELSE IF start_date # Undefined /\ isValidDate(start_date).k = "throw"
                 THEN isValidDate(start_date)
                 ELSE IF start_date # Undefined /\ ~isValidDate(start_date).v
                 THEN Invalid("Start date must be in YYYY-MM-DD format",
                              "INVALID_START_DATE")
                 ELSE IF end_date # Undefined /\ isValidDate(end_date).k = "throw"
                 THEN isValidDate(end_date)
                 ELSE IF end_date # Undefined /\ ~isValidDate(end_date).v
                 THEN Invalid("End date must be in YYYY-MM-DD format",
                              "INVALID_END_DATE")
                 ELSE IF /\ ~Falsy(start_date)
                         /\ ~Falsy(end_date)
                         /\ DateNumber(start_date) > DateNumber(end_date)
                 THEN Invalid("Start date cannot be after end date",
                              "INVALID_DATE_RANGE")
                 ELSE Return(Undefined)

getBalanceHistory(params) ==
    LET p == IF params = Undefined THEN Obj(EmptyObject) ELSE params
        v == validateBalanceHistoryParams(p)
    IN  IF v.k = "throw" THEN v
        ELSE Ask(<<"/balance/history?">> \o buildQueryString(p), EmptyObject)

(* TransactionsAPI *)

validateTransactionParams(params) ==
    LET d == Destructure(params)
        DateNumber(v) == ParseDigits(SelectSeq(v.s, LAMBDA c : c # "-"))
        Listed(key, valid) == Get(d.v, key) = Undefined \/ Get(d.v, key) \in valid
    IN  IF d.k = "throw" THEN d
        ELSE LET page == Get(d.v, "page")
                 per_page == Get(d.v, "per_page")
                 start_date == Get(d.v, "start_date")
                 end_date == Get(d.v, "end_date")
             IN  IF page # Undefined /\ (~IsInteger(page) \/ page.n < 1)
                 THEN Invalid("Page must be a positive integer", "INVALID_PAGE")
                 ELSE IF /\ per_page # Undefined
                         /\ (~IsInteger(per_page) \/ per_page.n < 1 \/ per_page.n > 100)
                 THEN Invalid("Per page must be between 1 and 100", "INVALID_PER_PAGE")
                 ELSE IF ~Listed("type", { Str(<<"collection">>), Str(<<"withdrawal">>),
                                           Str(<<"charge">>), Str(<<"refund">>) })
                 THEN Invalid("Invalid transaction type", "INVALID_TYPE")
                 ELSE IF ~Listed("status",
                                 { Str(<<"pending">>), Str(<<"processing">>),
                                   Str(<<"successful">>), Str(<<"failed">>),
                                   Str(<<"cancelled">>) })
                 THEN Invalid("Invalid transaction status", "INVALID_STATUS")
                 ELSE IF ~Listed("provider", { Str(<<"mtn">>), Str(<<"airtel">>) })
                 THEN Invalid("Invalid provider", "INVALID_PROVIDER")
                 ELSE IF start_date # Undefined /\ isValidDate(start_date).k = "throw"
                 THEN isValidDate(start_date)
                 ELSE IF start_date # Undefined /\ ~isValidDate(start_date).v
                 THEN Invalid("Start date must be in YYYY-MM-DD format",
                              "INVALID_START_DATE")
                 ELSE IF end_date # Undefined /\ isValidDate(end_date).k = "throw"
                 THEN isValidDate(end_date)
                 ELSE IF end_date # Undefined /\ ~isValidDate(end_date).v
                 THEN Invalid("End date must be in YYYY-MM-DD format",
                              "INVALID_END_DATE")
                 ELSE IF /\ ~Falsy(start_date)
                         /\ ~Falsy(end_date)
                         /\ DateNumber(start_date) > DateNumber(end_date)
                 THEN Invalid("Start date cannot be after end date",
                              "INVALID_DATE_RANGE")
                 ELSE Return(Undefined)

getTransactions(params) ==
    LET p == IF params = Undefined THEN Obj(EmptyObject) ELSE params
        v == validateTransactionParams(p)
    IN  IF v.k = "throw" THEN v
        ELSE Ask(<<"/transactions?">> \o buildQueryString(p), EmptyObject)

\* getTransactions({ type, ...params })
getByType(type, params) ==
    getTransactions(Obj(Merge([type |-> type], Spread(params))))

\* getTransactions({ status, ...params })
getByStatus(status, params) ==
    getTransactions(Obj(Merge([status |-> status], Spread(params))))

\* getTransactions({ provider, ...params })
getByProvider(provider, params) ==
    getTransactions(Obj(Merge([provider |-> provider], Spread(params))))

getHistory(params) ==
    Ask(<<"/transactions?">>
          \o buildQueryString(Obj(Merge([type |-> Str(<<"withdrawal">>)],
                                        Spread(params)))),
        EmptyObject)

(* Dates, as BalanceAPI and TransactionsAPI compute them with Date, in a
   process whose time zone is UTC *)

\* new Date(): the day the operations are called on, as <<year, month, day>>
Today == <<2024, 6, 15>>

\* date.toISOString().split('T')[0]
ToIsoDate(date) ==
    LET Pad(n, width) ==
            [i \in 1..width |-> ToString((n \div Pow10(width - i)) % 10)]
    IN  Str(Pad(date[1], 4) \o <<"-">> \o Pad(date[2], 2) \o <<"-">> \o Pad(date[3], 2))

\* the day before the first of the month after <<year, month>>
LastDayOfMonth(year, month) ==
    IF month = 2
    THEN (IF year % 4 = 0 /\ (year % 100 # 0 \/ year % 400 = 0) THEN 29 ELSE 28)
    ELSE IF month \in {4, 6, 9, 11} THEN 30 ELSE 31

\* date.setDate(day) for a day that may be zero or negative: the days before
\* the first of the month are those of the months before
RECURSIVE SetDate(_, _)
SetDate(date, day) ==
    IF day >= 1 THEN <<date[1], date[2], day>>
    ELSE LET year == IF date[2] = 1 THEN date[1] - 1 ELSE date[1]
             month == IF date[2] = 1 THEN 12 ELSE date[2] - 1
         IN  SetDate(<<year, month, date[3]>>, day + LastDayOfMonth(year, month))

\* date.setMonth(month) for a one-based month that may be zero or negative
RECURSIVE SetMonth(_, _)
SetMonth(date, month) ==
    IF month >= 1 THEN <<date[1], month, date[3]>>
    ELSE SetMonth(<<date[1] - 1, date[2], date[3]>>, month + 12)

\* the switch over the period: the start of the range that ends today
StartDate(period, count) ==
    CASE period = Str(<<"daily">>) -> SetDate(Today, Today[3] - count.n)
      [] period = Str(<<"weekly">>) -> SetDate(Today, Today[3] - count.n * 7)
      [] period = Str(<<"monthly">>) -> SetMonth(Today, Today[2] - count.n)

\* the checks of period and count that getBalanceTrends and getAnalytics share
ValidatePeriod(period, count) ==
    IF period \notin {Str(<<"daily">>), Str(<<"weekly">>), Str(<<"monthly">>)}
    THEN Invalid("Period must be daily, weekly, or monthly", "INVALID_PERIOD")
    ELSE IF ~IsInteger(count) \/ count.n < 1 \/ count.n > 24
    THEN Invalid("Count must be between 1 and 24", "INVALID_COUNT")
    ELSE Return(Undefined)

(* BalanceAPI: summaries *)

getPeriodSummary(startDate, endDate) ==
    IF Falsy(startDate) \/ Falsy(endDate)
    THEN Invalid("Both start and end dates are required", "MISSING_DATES")
    ELSE getBalanceHistory(Obj([start_date |-> startDate, end_date |-> endDate,
                                per_page |-> Num(1000)]))

getMonthlySummary(year, month) ==
    IF ~IsInteger(year) \/ year.n < 2000 \/ year.n > 2100
    THEN Invalid("Year must be between 2000 and 2100", "INVALID_YEAR")
    ELSE IF ~IsInteger(month) \/ month.n < 1 \/ month.n > 12
    THEN Invalid("Month must be between 1 and 12", "INVALID_MONTH")
    ELSE getPeriodSummary(ToIsoDate(<<year.n, month.n, 1>>),
                          ToIsoDate(<<year.n, month.n,
                                      LastDayOfMonth(year.n, month.n)>>))

getBalanceTrends(periodArg, countArg) ==
    LET period == IF periodArg = Undefined THEN Str(<<"monthly">>) ELSE periodArg
        count == IF countArg = Undefined THEN Num(6) ELSE countArg
    IN  IF ValidatePeriod(period, count).k = "throw" THEN ValidatePeriod(period, count)
        ELSE getPeriodSummary(ToIsoDate(StartDate(period, count)), ToIsoDate(Today))

(* TransactionsAPI: summaries *)

getByDateRange(startDate, endDate, params) ==
    IF Falsy(startDate) \/ Falsy(endDate)
    THEN Invalid("Both start and end dates are required", "MISSING_DATES")
    ELSE getTransactions(Obj(Merge([start_date |-> startDate, end_date |-> endDate],
                                   Spread(params))))

\* TransactionsAPI.getSummary up to its await
getSummary(params) ==
    getTransactions(Obj(Merge(Spread(params), [per_page |-> Num(1000)])))

\* TransactionsAPI.getAnalytics up to its await
getAnalytics(periodArg, countArg) ==
    LET period == IF periodArg = Undefined THEN Str(<<"monthly">>) ELSE periodArg
        count == IF countArg = Undefined THEN Num(6) ELSE countArg
    IN  IF ValidatePeriod(period, count).k = "throw" THEN ValidatePeriod(period, count)
        ELSE getByDateRange(ToIsoDate(StartDate(period, count)), ToIsoDate(Today),
                            Obj([per_page |-> Num(1000)]))

-----------------------------------------------------------------------------
(* The domain modules: an operation from its call to its result *)

\* the synchronous start of each operation: what it throws, or the request()
\* calls it issues before its first await
Begin(name, a) ==
    CASE name = "services.getServices" -> getServices(a)
      [] name = "services.getService" -> getService(a)
      [] name = "services.getActive" -> getActive(a)
      [] name = "services.getSummary" -> getServices(Obj([per_page |-> Num(1000)]))
      [] name = "services.compareServices" -> compareServices(a)
      [] name = "webhooks.getWebhooks" -> getWebhooks(a)
      [] name = "webhooks.getSummary" -> getWebhooks(Obj([per_page |-> Num(1000)]))
      [] name = "webhooks.deleteWebhook" -> deleteWebhook(a)
      [] name = "collections.collectMoney" -> collectMoney(a)
      [] name = "disbursements.sendMoney" -> sendMoney(a)
      [] name \in {"balance.getBalance", "balance.hasSufficientBalance"} ->
            IF name = "balance.hasSufficientBalance" /\ (a.t # "number" \/ a.n <= 0)
            THEN Invalid("Amount must be a positive number", "INVALID_AMOUNT")
            ELSE Ask(<<"/balance">>, EmptyObject)
      [] name \in {"accounts.getAccountInfo", "accounts.isAccountActive",
                   "accounts.isAccountVerified"} -> Ask(<<"/account">>, EmptyObject)
      [] name = "services.isServiceAvailable" ->
            getServices(Obj([type |-> a.items[1], provider |-> a.items[2],
                             status |-> Str(<<"active">>)]))
      [] name = "balance.getBalanceHistory" -> getBalanceHistory(a)
      [] name = "transactions.getTransactions" -> getTransactions(a)
      [] name = "transactions.getByType" -> getByType(a.items[1], a.items[2])
      [] name = "transactions.getByStatus" -> getByStatus(a.items[1], a.items[2])
      [] name = "transactions.getByProvider" -> getByProvider(a.items[1], a.items[2])
      [] name = "disbursements.getHistory" -> getHistory(a)
      [] name = "balance.getPeriodSummary" -> getPeriodSummary(a.items[1], a.items[2])
      [] name = "balance.getMonthlySummary" ->
            getMonthlySummary(a.items[1], a.items[2])
      [] name = "balance.getBalanceTrends" -> getBalanceTrends(a.items[1], a.items[2])
      [] name = "transactions.getSummary" -> getSummary(a)
      [] name = "transactions.getAnalytics" -> getAnalytics(a.items[1], a.items[2])

\* the methods that are not async: the value they return or what they throw
Sync(name, a) ==
    CASE name = "collections.validateCollectionParams" -> validateCollectionParams(a)
      [] name = "collections.isValidAmount" -> Return(Bool(isValidAmount(a)))
      [] name = "collections.getLimits" -> Return(Obj(getLimits))
      [] name = "collections.isValidReference" -> Return(isValidReference(a))
      [] name = "disbursements.validateDisbursementParams" ->
            validateDisbursementParams(a)
      [] name = "disbursements.isValidAmount" ->
            Return(Bool(Disbursements_isValidAmount(a)))
      [] name = "disbursements.getLimits" -> Return(Obj(Disbursements_getLimits))
      [] name = "disbursements.isValidReference" ->
            Return(Disbursements_isValidReference(a))

\* every operation awaits getActive({ per_page: 1000 }) after its first call
Then_Always(name) == getActive(Obj([per_page |-> Num(1000)]))

\* the operations that await a second call once the first has resolved:
\* getActive({ per_page: 1000 }) and getByStatus('active', { per_page: 1000 })
Then(name) ==
    CASE name = "services.getSummary" -> getActive(Obj([per_page |-> Num(1000)]))
      [] name = "webhooks.getSummary" ->
            getWebhooks(Obj(Merge([status |-> Str(<<"active">>)],
                                  [per_page |-> Num(1000)])))
      [] OTHER -> Return(<<>>)

\* the catch block around the step of the operation that failed: the operations
\* that wrap their body in try { ... } catch (error) { return false; } resolve
\* with false, every other operation rejects with the error
TryCatch(name, step, e) ==
    IF \/ name \in {"services.isServiceAvailable", "accounts.isAccountActive",
                     "accounts.isAccountVerified"}
       \/ name = "balance.hasSufficientBalance" /\ step = "await"
    THEN Resolve(Bool(FALSE))
    ELSE Reject(e)

\* v.a.b.c: a TypeError when a property is read from null or undefined
RECURSIVE Read(_, _)
Read(v, path) ==
    IF path = <<>> THEN Return(v)
    ELSE IF v.t \in {"null", "undefined"}
    THEN Throw(OtherError("TypeError", <<"Cannot read properties of undefined">>))
    ELSE Read(IF v.t = "object" THEN Get(v.f, Head(path)) ELSE Undefined, Tail(path))

\* what the operation returns from the values its calls resolved with, or what
\* building that value throws
Finish(name, a, data) ==
    LET Total(i, key) == Read(data[i], <<"data", "summary", key>>)
        Count(i, key) == Or(Total(i, key).v, Num(0))
        Summary(fields) == Return(Obj([status |-> Str(<<"success">>),
                                       data |-> Obj([summary |-> Obj(fields)])]))
        Service(i) == Read(data[i], <<"data", "service", "uuid">>)
        Field(i, key) == Get(data[i].f.data.f.service.f, key)
        Distinct(key) ==
            LET all == [i \in 1..Len(data) |-> Field(i, key)]
                first == SelectSeq([i \in 1..Len(data) |-> i],
                                   LAMBDA i : \A j \in 1..(i - 1) : all[j] # all[i])
            IN  Arr([i \in 1..Len(first) |-> all[first[i]]])
        ParseFloat(v) == CASE v.t = "number" -> v
                           [] v.t = "string" /\ v.s # <<>> /\ AllDigits(v.s) ->
                                 Num(ParseDigits(v.s))
                           [] OTHER -> NaN
        Raw == Read(data[1], <<"data", "account", "balance", "raw">>)
        AccountStatus(key) == Read(data[1], <<"data", "account", "status", key>>)
    IN  CASE name = "balance.hasSufficientBalance" ->
               IF Raw.k = "throw" THEN Raw
               ELSE Return(Bool(ParseFloat(Raw.v).t = "number"
                                  /\ ParseFloat(Raw.v).n >= a.n))
          [] name = "services.isServiceAvailable" ->
               IF Total(1, "total_services").k = "throw" THEN Total(1, "total_services")
               ELSE Return(Bool(Total(1, "total_services").v.t = "number"
                                  /\ Total(1, "total_services").v.n > 0))
          [] name = "accounts.isAccountActive" ->
               IF AccountStatus("account_status").k = "throw"
               THEN AccountStatus("account_status")
               ELSE Return(Bool(/\ AccountStatus("account_status").v = Str(<<"active">>)
                                /\ AccountStatus("is_frozen").v = Str(<<"false">>)))
          [] name = "accounts.isAccountVerified" ->
               IF AccountStatus("is_verified").k = "throw"
               THEN AccountStatus("is_verified")
               ELSE Return(Bool(AccountStatus("is_verified").v = Str(<<"true">>)))
          [] name = "services.getSummary" ->
               IF Total(1, "total_services").k = "throw" THEN Total(1, "total_services")
               ELSE IF Total(2, "total_services").k = "throw"
               THEN Total(2, "total_services")
               ELSE Summary([total_services |-> Count(1, "total_services"),
                             active_services |-> Count(2, "total_services"),
                             inactive_services |->
                                 Num(Count(1, "total_services").n
                                       - Count(2, "total_services").n),
                             total_providers |-> Count(1, "total_providers"),
                             total_countries |-> Count(1, "total_countries")])
          [] name = "webhooks.getSummary" ->
               IF Total(1, "total_webhooks").k = "throw" THEN Total(1, "total_webhooks")
               ELSE IF Total(2, "total_webhooks").k = "throw"
               THEN Total(2, "total_webhooks")
               ELSE Summary([total_webhooks |-> Count(1, "total_webhooks"),
                             active_webhooks |-> Count(2, "total_webhooks"),
                             inactive_webhooks |->
                                 Num(Count(1, "total_webhooks").n
                                       - Count(2, "total_webhooks").n)])
          [] name = "services.compareServices" ->
               IF \E i \in 1..Len(data) : Service(i).k = "throw"
               THEN Service(CHOOSE i \in 1..Len(data) :
                               /\ Service(i).k = "throw"
                               /\ \A j \in 1..(i - 1) : Service(j).k # "throw")
               ELSE Return(Obj([status |-> Str(<<"success">>),
                     data |-> Obj([comparison |-> Obj(
                       [services |-> Arr([i \in 1..Len(data) |->
                            Obj([uuid |-> Field(i, "uuid"),
                                 name |-> Field(i, "name"),
                                 type |-> Field(i, "type"),
                                 provider |-> Field(i, "provider"),
                                 status |-> Field(i, "status"),
                                 countries |-> Or(Field(i, "countries"), Arr(<<>>)),
                                 currencies |-> Or(Field(i, "currencies"), Arr(<<>>)),
                                 limits |-> Or(Field(i, "limits"), Obj(EmptyObject)),
                                 features |-> Or(Field(i, "features"), Arr(<<>>))])]),
                        summary |-> Obj(
                          [total_services |-> Num(Len(data)),
                           active_services |->
                               Num(Cardinality({i \in 1..Len(data) :
                                      Field(i, "status") = Str(<<"active">>)})),
                           types |-> Distinct("type"),
                           providers |-> Distinct("provider")])])])]))
          [] OTHER -> Return(data[1])

(* The calls and the responses the domain modules are checked on *)

TestUuid == Str(<<"5", "5", "0", "e", "8", "4", "0", "0", "-", "e", "2", "9", "b", "-", "4", "1", "d", "4", "-", "a", "7", "1", "6", "-", "4", "4", "6", "6", "5", "5", "4", "4", "0", "0", "0", "0">>)

ValidCollection ==
    [amount |-> Num(5000), phoneNumber |-> Str(<<"0", "7", "5", "9", "9", "8", "3", "8", "5", "3">>), reference |-> TestUuid]

DomainCalls ==
    { <<"services.getServices", a>> :
          a \in { Undefined, Null, Obj([type |-> Str(<<"collection">>)]),
                  Obj([type |-> Str(<<"invalid">>)]),
                  Obj([provider |-> Str(<<"mtn">>), status |-> Str(<<"active">>)]) } }
    \cup { <<"services.getService", a>> :
          a \in { Undefined, Str(<<"invalid-uuid">>), TestUuid } }
    \cup { <<"services.getActive", a>> :
          a \in { Undefined, Obj([type |-> Str(<<"withdrawal">>)]),
                  Obj([status |-> Str(<<"inactive">>)]) } }
    \cup { <<"services.getSummary", Undefined>>, <<"webhooks.getSummary", Undefined>>,
           <<"balance.getBalance", Undefined>> }
    \cup { <<"services.compareServices", a>> :
          a \in { Undefined, Arr(<<TestUuid>>),
                  Arr(<<TestUuid, [TestUuid EXCEPT !.s[1] = "6"]>>),
                  Arr(<<TestUuid, Str(<<"invalid-uuid">>)>>) } }
    \cup { <<"webhooks.getWebhooks", a>> :
          a \in { Undefined, Obj([status |-> Str(<<"paused">>)]) } }
    \cup { <<"webhooks.deleteWebhook", a>> : a \in { Undefined, TestUuid } }
    \cup { <<"collections.collectMoney", a>> :
          a \in { Undefined, Obj(ValidCollection),
                  Obj([ValidCollection EXCEPT !.amount = Num(100)]),
                  Obj([ValidCollection EXCEPT !.phoneNumber = Str(<<"1", "2", "3">>)]),
                  Obj([ValidCollection EXCEPT !.reference = Str(<<"invalid-ref">>)]),
                  Obj([amount |-> Num(5000), phoneNumber |-> Str(<<"0", "7", "5", "9", "9", "8", "3", "8", "5", "3">>)]) } }
    \cup { <<"balance.getBalanceHistory", a>> :
          a \in { Undefined, Obj([page |-> Num(1), per_page |-> Num(20)]),
                  Obj([per_page |-> Num(1000)]),
                  Obj([operation |-> Str(<<"refund">>)]),
                  Obj([start_date |-> Str(<<"2", "0", "2", "4", "-", "0", "1", "-", "0", "1">>), end_date |-> Str(<<"2", "0", "2", "4", "-", "0", "1", "-", "3", "1">>)]),
                  Obj([start_date |-> Str(<<"2", "0", "2", "4", "-", "0", "1", "-", "3", "1">>), end_date |-> Str(<<"2", "0", "2", "4", "-", "0", "1", "-", "0", "1">>)]),
                  Obj([start_date |-> Str(<<"invalid-date">>)]),
                  Obj([start_date |-> Num(20240101)]) } }
    \cup { <<"transactions.getTransactions", a>> :
          a \in { Undefined, Obj([page |-> Num(1), per_page |-> Num(20)]),
                  Obj([type |-> Str(<<"transfer">>)]) } }
    \cup { <<"transactions.getByType", Arr(<<Str(<<"collection">>), a>>)>> :
          a \in { Undefined, Obj([page |-> Num(2)]),
                  Obj([type |-> Str(<<"refund">>)]) } }
    \cup { <<"transactions.getByStatus", Arr(<<Str(<<"successful">>), a>>)>> :
          a \in { Undefined, Obj([status |-> Str(<<"failed">>)]) } }
    \cup { <<"transactions.getByProvider", Arr(<<Str(<<"mtn">>), a>>)>> :
          a \in { Undefined, Obj([provider |-> Str(<<"airtel">>)]) } }
    \cup { <<"balance.hasSufficientBalance", a>> :
          a \in { Undefined, Num(0), Num(1000), Num(10000) } }
    \cup { <<"services.isServiceAvailable", Arr(<<Str(<<t>>), Str(<<"mtn">>)>>)>> :
          t \in { "collection", "transfer" } }
    \cup { <<"accounts.getAccountInfo", Undefined>>,
           <<"accounts.isAccountActive", Undefined>>,
           <<"accounts.isAccountVerified", Undefined>> }
    \cup { <<"disbursements.getHistory", a>> :
          a \in { Undefined,
                  Obj([page |-> Num(2), per_page |-> Num(50),
                       status |-> Str(<<"successful">>)]),
                  Obj([type |-> Str(<<"collection">>)]) } }

\* the summary operations, with arguments their documentation gives and
\* arguments it excludes
SummaryCalls ==
    { <<"balance.getPeriodSummary", Arr(<<a, b>>)>> :
          a \in { Undefined,
                  Str(<<"2", "0", "2", "4", "-", "0", "1", "-", "0", "1">>) },
          b \in { Str(<<"2", "0", "2", "4", "-", "0", "1", "-", "3", "1">>) } }
    \cup { <<"balance.getMonthlySummary", Arr(<<Num(y), Num(m)>>)>> :
             y \in {1999, 2024, 2025}, m \in {1, 2, 12, 13} }
    \cup { <<name, Arr(<<period, count>>)>> :
             name \in {"balance.getBalanceTrends", "transactions.getAnalytics"},
             period \in { Undefined, Str(<<"daily">>), Str(<<"weekly">>),
                          Str(<<"monthly">>), Str(<<"yearly">>) },
             count \in { Undefined, Num(1), Num(24), Num(25) } }
    \cup { <<"transactions.getSummary", a>> :
             a \in { Undefined, Obj([type |-> Str(<<"collection">>)]),
                     Obj([start_date |-> Str(<<"2", "0", "2", "4", "-", "0", "1", "-", "0", "1">>), end_date |-> Str(<<"2", "0", "2", "4", "-", "0", "1", "-", "3", "1">>)]) } }

\* the amounts, references and phone numbers of the payment operations
AmountInputs ==
    { Undefined, Null, Num(0), Num(-1000), Num(100), Num(499), Num(500), Num(999),
      Num(1000), Num(5000), Num(500000), Num(500001), Num(1000000), Num(10000000),
      Num(10000001), Num(20000000),
      Frac(499, 9), Frac(1000, 7), Frac(500000, 5),
      Str(<<>>), Str(<<"0">>), Str(<<"5", "0", "0", "0">>),
      Str(<<"5", "0", "0", "0", ".", "5">>), Str(<<"1", "e", "3">>),
      Str(<<"a", "b", "c">>) }

ReferenceInputs ==
    { Undefined, TestUuid,
      [TestUuid EXCEPT !.s[15] = "1"], [TestUuid EXCEPT !.s[15] = "5"],
      [TestUuid EXCEPT !.s[15] = "6"],
      Str(<<"i", "n", "v", "a", "l", "i", "d", "-", "r", "e", "f">>),
      Str(<<" ", " ", " ">>), Str([i \in 1..101 |-> "a"]), Num(12345) }

PaymentPhones ==
    { Undefined, Str(<<"+", "2", "5", "6", "7", "5", "9", "9", "8", "3", "8", "5", "3">>),
      Str(<<"7", "5", "9", "9", "8", "3", "8", "5", "3">>),
      Str(<<"0", "7", "5", "9", "-", "9", "8", "3", "8", "5", "3">>),
      Str(<<"1", "2", "3">>) }

\* { ...ValidCollection, key: value }, the key left out when the value is undefined
With(key, value) ==
    IF value = Undefined
    THEN Obj([k \in DOMAIN ValidCollection \ {key} |-> ValidCollection[k]])
    ELSE Obj([ValidCollection EXCEPT ![key] = value])

PaymentParams ==
    {With("amount", x) : x \in AmountInputs}
        \cup {With("reference", x) : x \in ReferenceInputs}
        \cup {With("phoneNumber", x) : x \in PaymentPhones}
        \cup {Undefined}

PaymentCalls ==
    {"collections.collectMoney", "disbursements.sendMoney"} \X PaymentParams

MethodCalls ==
    ({"collections.validateCollectionParams",
      "disbursements.validateDisbursementParams"} \X PaymentParams)
        \cup ({"collections.isValidAmount", "disbursements.isValidAmount"}
                 \X AmountInputs)
        \cup ({"collections.isValidReference", "disbursements.isValidReference"}
                 \X ReferenceInputs)
        \cup ({"collections.getLimits", "disbursements.getLimits"} \X {Undefined})

DomainResponses ==
    OverlapResponses \cup
    { [status |-> 200,
       body |-> [decodable |-> TRUE,
                 value |-> Obj([status |-> Str(<<"success">>),
                    data |-> Obj([summary |-> Obj([total_services |-> Num(3),
                                                   total_providers |-> Num(2),
                                                   total_webhooks |-> Num(2)]),
                                  account |-> Obj(
                                     [status |-> Obj([account_status |-> Str(<<"active">>),
                                                      is_frozen |-> Str(<<"false">>),
                                                      is_verified |-> Str(<<"true">>)]),
                                      balance |-> Obj([raw |-> Num(5000)])]),
                                  service |-> Obj([uuid |-> TestUuid,
                                                   type |-> Str(<<"collection">>),
                                                   provider |-> Str(<<"mtn">>),
                                                   status |-> Str(<<"active">>)])])])]] }

InitDomain ==
    /\ given = [apiUser |-> Str(<<"test-api-user">>), apiKey |-> Str(<<"test-api-key">>)]
    /\ config = New(given).v
    /\ calls = [i \in Slots |-> [pc |-> "idle"]]
    /\ phone = Undefined
    /\ op = "none"
    /\ arg = Undefined
    /\ result = NotCalled
    /\ providerSeen = NotCalled
    /\ retry = NoRetry

\* the request() calls the operation has issued
Issued == {i \in Slots : calls[i].pc # "idle"}

\* a public operation is called: it throws, or issues its first request() calls
\* and awaits them
Invoke(name, a) ==
    /\ op = "none" \/ result # NotCalled
    /\ op' = name
    /\ arg' = a
    /\ LET begin == Begin(name, a)
       IN  IF begin.k = "throw"
           THEN /\ result' = TryCatch(name, "start", begin.e)
                /\ calls' = [i \in Slots |-> [pc |-> "idle"]]
           ELSE /\ result' = NotCalled
                /\ calls' = [i \in Slots |->
                               IF i <= Len(begin.v)
                               THEN Started(begin.v[i].endpoint, begin.v[i].options)
                               ELSE [pc |-> "idle"]]
    /\ UNCHANGED <<phone, providerSeen, given, config, retry>>

\* a method that is not async is called: it returns or throws at once
Call(name, a) ==
    /\ op = "none" \/ result # NotCalled
    /\ op' = name
    /\ arg' = a
    /\ result' = Sync(name, a)
    /\ calls' = [i \in Slots |-> [pc |-> "idle"]]
    /\ UNCHANGED <<phone, providerSeen, given, config, retry>>

\* the awaited request() call has settled: the operation rejects with its error,
\* awaits its next call, or returns
Settle ==
    /\ op \notin {"none", "services.compareServices"}
    /\ result = NotCalled
    /\ LET last == CHOOSE i \in Issued : \A j \in Issued : j <= i
           then == Then(op)
       IN  /\ calls[last].pc = "done"
           /\ IF calls[last].outcome.k = "reject"
              THEN /\ result' = TryCatch(op, "await", calls[last].outcome.e)
                   /\ UNCHANGED calls
              ELSE IF then.k = "throw"
              THEN result' = TryCatch(op, "await", then.e) /\ UNCHANGED calls
              ELSE IF last <= Len(then.v)
              THEN /\ calls' = [calls EXCEPT ![last + 1] =
                                  Started(then.v[1].endpoint, then.v[1].options)]
                   /\ UNCHANGED result
              ELSE LET value == Finish(op, arg, [i \in 1..last |-> calls[i].outcome.v])
                   IN  /\ result' = IF value.k = "throw"
                                    THEN TryCatch(op, "await", value.e)
                                    ELSE Resolve(value.v)
                       /\ UNCHANGED calls
    /\ UNCHANGED <<phone, op, arg, providerSeen, given, config, retry>>

\* Promise.all of compareServices settles: it rejects with the first rejection,
\* or all calls have resolved and the comparison is returned
SettleAll ==
    /\ op = "services.compareServices"
    /\ result = NotCalled
    /\ \/ \E i \in Issued :
             /\ calls[i].pc = "done"
             /\ calls[i].outcome.k = "reject"
             /\ result' = Reject(calls[i].outcome.e)
       \/ /\ \A i \in Issued : calls[i].pc = "done" /\ calls[i].outcome.k = "resolve"
          /\ LET value == Finish(op, arg, [i \in 1..Cardinality(Issued) |->
                                              calls[i].outcome.v])
             IN  result' = IF value.k = "throw" THEN Reject(value.e)
                           ELSE Resolve(value.v)
    /\ UNCHANGED calls
    /\ UNCHANGED <<phone, op, arg, providerSeen, given, config, retry>>

NextDomain ==
    \/ \E c \in DomainCalls \cup PaymentCalls \cup SummaryCalls : Invoke(c[1], c[2])
    \/ \E c \in MethodCalls : Call(c[1], c[2])
    \/ \E i \in Slots, r \in DomainResponses : FetchResolves(i, r.status, r.body)
    \/ \E i \in Slots : FetchRejects(i, OtherError("TypeError", <<"Network error">>))
    \/ \E i \in Slots : JsonResolves(i)
    \/ \E i \in Slots : JsonRejects(i)
    \/ Settle
    \/ SettleAll

SpecDomain == InitDomain /\ [][NextDomain]_vars

-----------------------------------------------------------------------------
(* Properties of MarzPay.request *)

HasValue(body, key) ==
    /\ body.t = "object"
    /\ key \in DOMAIN body.f
    /\ body.f[key] \notin {Null, Undefined, Str(<<>>)}

\* C10: for every response with a non-success status and a decodable body B
\* (any JSON value, null included), request rejects with a MarzPayError of that
\* status, of message B.message or 'Request failed' and of code B.error_code
\* or the default code.
C10_ErrorFromDecodedBody ==
    (/\ call.pc = "done"
     /\ call.response # NotCalled
     /\ call.response.body.decodable
     /\ ~(call.response.status \in 200..299)) =>
        LET B == call.response.body.value
        IN  /\ call.outcome.k = "reject"
            /\ call.outcome.e.name = "MarzPayError"
            /\ call.outcome.e.status = call.response.status
            /\ call.outcome.e.message =
                  IF HasValue(B, "message") THEN B.f.message
                  ELSE Str(<<"Request failed">>)
            /\ call.outcome.e.code =
                  IF HasValue(B, "error_code") THEN B.f.error_code
                  ELSE Str(<<"REQUEST_FAILED">>)

\* C11: when a response arrives whose body JSON cannot decode, request rejects
\* with a MarzPayError whose code is not the transport code NETWORK_ERROR and
\* whose message is the raw text of the response.
C11_DecodeFailureCarriesRawText ==
    (/\ call.pc = "done"
     /\ call.response # NotCalled
     /\ ~call.response.body.decodable) =>
        /\ call.outcome.k = "reject"
        /\ call.outcome.e.name = "MarzPayError"
        /\ call.outcome.e.code # Str(<<"NETWORK_ERROR">>)
        /\ call.outcome.e.message = Str(call.response.body.text)

\* C12: a request call that has ended has resolved or rejected; it has resolved,
\* with the decoded body unchanged, exactly when a response arrived, was decoded
\* and has a success status; in every other case, a throw while building the
\* auth header or serializing the body included, it has rejected with a
\* MarzPayError.
C12_ResolvesOrRejectsWithMarzPayError ==
    call.pc = "done" =>
        LET success == /\ call.response # NotCalled
                       /\ call.response.body.decodable
                       /\ Ok(call.response.status)
        IN  /\ call.outcome.k \in {"resolve", "reject"}
            /\ (call.outcome.k = "resolve") <=> success
            /\ call.outcome.k = "resolve" =>
                  call.outcome.v = call.response.body.value
            /\ call.outcome.k = "reject" => call.outcome.e.name = "MarzPayError"

\* C15: every fetch carries an Authorization header: the caller's own when
\* options.headers names one, else the Basic header of the configured
\* credentials; other caller headers do not remove it.
C15_AuthorizationHeader ==
    (call.pc # "idle" /\ call.sent # NotCalled) =>
        LET headers == Get(call.sent.config, "headers")
            own == Get(Spread(Get(call.options, "headers")), "Authorization")
        IN  /\ headers.t = "object"
            /\ "Authorization" \in DOMAIN headers.f
            /\ headers.f["Authorization"] =
                  IF own # Undefined THEN own ELSE getAuthHeader(config).v

\* C16: a fetch carries a JSON-serialized body together with the header
\* Content-Type: application/json exactly when the options hold a body and the
\* method is POST, PUT or PATCH; with any other method no body is sent, and a
\* body given with POST, PUT or PATCH is sent as JSON.stringify(body).
C16_JsonBodyOnlyWithWriteMethod ==
    (call.pc # "idle" /\ call.sent # NotCalled) =>
        LET method == Or(Get(call.options, "method"), Str(<<"GET">>))
            writes == method \in {Str(<<"POST">>), Str(<<"PUT">>), Str(<<"PATCH">>)}
            body == Get(call.options, "body")
            sentBody == Get(call.sent.config, "body")
            contentType == Get(Spread(Get(call.sent.config, "headers")),
                               "Content-Type")
        IN  /\ (sentBody # Undefined /\ contentType = Str(<<"application/json">>))
                  <=> (body # Undefined /\ writes)
            /\ ~writes => sentBody = Undefined
            /\ (writes /\ body # Undefined) => sentBody = JsonStringify(body).v

\* C18: when the constructor's config lacks apiUser or apiKey, new MarzPay
\* throws a MarzPayError with message 'API credentials are required', and no
\* instance has an empty apiUser or apiKey.
C18_MissingCredentialsThrow ==
    /\ (Get(given, "apiUser") = Undefined \/ Get(given, "apiKey") = Undefined) =>
          /\ New(given).k = "throw"
          /\ New(given).e.name = "MarzPayError"
          /\ New(given).e.message = Str(<<"API credentials are required">>)
    /\ ~Falsy(Get(config, "apiUser"))
    /\ ~Falsy(Get(config, "apiKey"))

\* C19: after construction, baseUrl and timeout of this.config are the caller's
\* values when the caller gave them and the defaults otherwise, a key given
\* with the value undefined included; they are never undefined.
C19_BaseUrlAndTimeoutDefined ==
    /\ Get(config, "baseUrl") =
          IF Get(given, "baseUrl") # Undefined THEN given.baseUrl
          ELSE Str(<<"https://wallet.wearemarz.com/api/v1">>)
    /\ Get(config, "timeout") =
          IF Get(given, "timeout") # Undefined THEN given.timeout
          ELSE Num(30000)
    /\ Get(config, "baseUrl") # Undefined
    /\ Get(config, "timeout") # Undefined

-----------------------------------------------------------------------------
(* Properties of overlapping calls *)

\* building the auth header or serializing the body of this call throws
BuildThrows(c) ==
    \/ getAuthHeader(config).k = "throw"
    \/ /\ ~Falsy(Get(c.options, "body"))
       /\ JsonStringify(Get(c.options, "body")).k = "throw"

\* C13 as stated: every request call that has ended has made exactly one fetch.
C13_ExactlyOneFetch ==
    \A i \in Slots : calls[i].pc = "done" => calls[i].fetches = 1

\* C13, amended: a request call makes at most one fetch, and none only when
\* building the auth header or the body threw; the fetch is made at once when
\* request is called, whatever the other callers' calls are doing (no queue),
\* a failed fetch is not repeated (no retry), and a response is only ever the
\* answer to the call's own fetch (no cache).
C13_AtMostOneFetch ==
    \A i \in Slots : calls[i].pc # "idle" =>
        /\ calls[i].fetches = (IF BuildThrows(calls[i]) THEN 0 ELSE 1)
        /\ (calls[i].response # NotCalled \/ calls[i].transport # NotCalled) =>
              calls[i].fetches = 1

C13_Witness ==
    /\ calls[1].pc = "done"
    /\ calls[1].transport # NotCalled
    /\ calls[1].fetches = 1
    /\ calls[2].pc = "done"
    /\ calls[2].fetches = 0

\* C17: no step of a request call changes this.config or the options object of
\* a call in flight, and two calls that were given the same endpoint and options
\* and received the same response (or the same transport failure) have sent the
\* same request and ended with the same outcome, whatever calls came before them
\* or overlapped with them.
C17_RequestLeavesConfigAndOptions ==
    /\ [][/\ config' = config
          /\ \A i \in Slots :
                calls[i].pc \in {"fetching", "decoding"} =>
                    calls'[i].options = calls[i].options]_vars
    /\ [](\A i, j \in Slots :
            (/\ calls[i].pc = "done"
             /\ calls[j].pc = "done"
             /\ calls[i].endpoint = calls[j].endpoint
             /\ calls[i].options = calls[j].options
             /\ calls[i].response = calls[j].response
             /\ calls[i].transport = calls[j].transport) =>
                /\ calls[i].sent = calls[j].sent
                /\ calls[i].outcome = calls[j].outcome)

\* the second caller's call began and ended while the first caller's call was
\* waiting for its response to be decoded
C17_Witness ==
    /\ calls[1].pc = "decoding"
    /\ calls[2].pc = "done"
    /\ calls[2].outcome.k = "resolve"
    /\ calls[2].options # calls[1].options
    /\ config = Construct(given)

-----------------------------------------------------------------------------
(* Properties of the domain modules *)

\* C14 as stated: no public operation issues more than one request() call.
C14_AtMostOneCall == Cardinality(Issued) <= 1

\* C14, amended: a public operation issues at most one request() call, except
\* the two getSummary operations, which issue at most two, the second only after
\* the first has resolved, and compareServices, which issues one call per uuid
\* (2 to 5) at once, or none.
C14_AtMostOneCallExceptSummaries ==
    CASE op \in {"services.getSummary", "webhooks.getSummary"} ->
            /\ Cardinality(Issued) <= 2
            /\ \A i \in Issued : i > 1 =>
                  calls[i - 1].pc = "done" /\ calls[i - 1].outcome.k = "resolve"
      [] op = "services.compareServices" ->
            \/ Issued = {}
            \/ /\ Issued = 1..Len(arg.items)
               /\ Len(arg.items) \in 2..5
      [] OTHER -> Cardinality(Issued) <= 1

C14_Witness ==
    /\ op = "services.getSummary"
    /\ result.k = "resolve"
    /\ Cardinality(Issued) = 2

\* C20: when the arguments of collectMoney, getService, getServices,
\* deleteWebhook or getBalanceHistory fail the operation's local validation, the
\* operation rejects with a MarzPayError and has called request() at no point.
C20_ValidationPrecedesNetwork ==
    (/\ op \in {"collections.collectMoney", "services.getService",
                 "services.getServices", "webhooks.deleteWebhook",
                 "balance.getBalanceHistory"}
     /\ Begin(op, arg).k = "throw") =>
        /\ result.k = "reject"
        /\ result.e.name = "MarzPayError"
        /\ Issued = {}

-----------------------------------------------------------------------------
(* Properties of the provider names of PhoneNumberUtils *)

\* C29: for every name p that getSupportedProviders() returns,
\* getProviderPrefixes(p) returns that provider's non-empty prefix list, and for
\* every valid number, isFromProvider(x, p) and isValidForProvider(x, p) are
\* true exactly when getProvider(x) is p.
C29_ProviderNamesConsistent ==
    \A i \in 1..Len(getSupportedProviders) :
        LET p == getSupportedProviders[i]
        IN  /\ (op = "getProviderPrefixes" /\ arg = p) =>
                  /\ result = Return(Arr(providers[i].prefixes))
                  /\ Len(providers[i].prefixes) > 0
            /\ (op \in {"isFromProvider", "isValidForProvider"} /\ arg = p
                  /\ isValidPhoneNumber(phone)) =>
                  result = Return(Bool(getProvider(phone) = p))

-----------------------------------------------------------------------------
(* Properties of the convenience queries *)

\* C28: every query a convenience operation issues carries the filter the
\* operation names: type=withdrawal for DisbursementsAPI.getHistory,
\* status=active for ServicesAPI.getActive, and the first argument for
\* getByType, getByStatus and getByProvider, whatever params contains.
C28_NamedFilterIsQueried ==
    LET QueryHas(key, text) ==
            \A i \in Issued :
                \E n \in 1..(Len(calls[i].endpoint) - 2) :
                    SubSeq(calls[i].endpoint, n, n + 2) = <<key, "=">> \o text
    IN  /\ op = "disbursements.getHistory" => QueryHas("type", <<"withdrawal">>)
        /\ op = "services.getActive" => QueryHas("status", <<"active">>)
        /\ op = "transactions.getByType" => QueryHas("type", arg.items[1].s)
        /\ op = "transactions.getByStatus" => QueryHas("status", arg.items[1].s)
        /\ op = "transactions.getByProvider" => QueryHas("provider", arg.items[1].s)

-----------------------------------------------------------------------------
(* Properties of the failure paths of the domain modules *)

\* C23: whenever a request() call of a domain operation has failed, the
\* operation, once settled, has rejected with the error of a failed call; no
\* operation turns a failed request into a returned value.
C23_NoFailureSwallowed ==
    (/\ result # NotCalled
     /\ \E i \in Issued : calls[i].pc = "done" /\ calls[i].outcome.k = "reject") =>
        /\ result.k = "reject"
        /\ \E i \in Issued : /\ calls[i].pc = "done"
                             /\ calls[i].outcome = Reject(result.e)

-----------------------------------------------------------------------------
(* Properties of the classification of MarzPayError *)

\* C24: every MarzPayError a call or an operation has failed with has exactly
\* one classification: it is a network error when its status is 0 (transport
\* failure), a server error when its status is 500 or more, and a validation
\* error in every other case, and never two of these at once.
C24_ExactlyOneClassification ==
    LET failures ==
            {calls[i].outcome.e : i \in {j \in Slots : /\ calls[j].pc = "done"
                                                       /\ calls[j].outcome.k = "reject"}}
                \cup (IF result.k = "reject" THEN {result.e} ELSE {})
    IN  \A e \in {f \in failures : f.name = "MarzPayError"} :
            /\ isNetworkError(e) <=> e.status = 0
            /\ isServerError(e) <=> e.status >= 500
            /\ isValidationError(e) <=> (e.status # 0 /\ e.status < 500)

-----------------------------------------------------------------------------
(* Properties of the amounts and references of payments *)

\* C21: validateCollectionParams and validateDisbursementParams raise
\* INVALID_AMOUNT exactly when the amount is missing or isValidAmount(amount)
\* is false, and isValidAmount(amount) is true exactly when the amount lies
\* between getLimits().min and getLimits().max, both included: 500 and
\* 10,000,000 for collections, 1,000 and 500,000 for disbursements.
C21_AmountLimitsConsistent ==
    LET amount == Get(arg.f, "amount")
        RaisesInvalidAmount ==
            /\ result.k = "throw"
            /\ result.e.name = "MarzPayError"
            /\ result.e.code = Str(<<"INVALID_AMOUNT">>)
    IN  /\ (op = "collections.validateCollectionParams" /\ arg.t = "object") =>
              (RaisesInvalidAmount <=> (amount = Undefined \/ ~isValidAmount(amount)))
        /\ (op = "disbursements.validateDisbursementParams" /\ arg.t = "object") =>
              (RaisesInvalidAmount <=>
                  (amount = Undefined \/ ~Disbursements_isValidAmount(amount)))
        /\ op = "collections.isValidAmount" =>
              /\ getLimits.min = Num(500) /\ getLimits.max = Num(10000000)
              /\ result = Return(Bool(Le(getLimits.min, arg) /\ Le(arg, getLimits.max)))
        /\ op = "disbursements.isValidAmount" =>
              /\ Disbursements_getLimits.min = Num(1000)
              /\ Disbursements_getLimits.max = Num(500000)
              /\ result = Return(Bool(/\ Le(Disbursements_getLimits.min, arg)
                                      /\ Le(arg, Disbursements_getLimits.max)))

\* C22: validateCollectionParams and validateDisbursementParams reject a
\* reference that is present and is not a UUID of version 4 with 'Reference
\* must be a valid UUID4', and isValidReference returns false for it; they
\* reject a missing reference with 'Reference is required'.
C22_ReferenceMustBeUuid4 ==
    LET IsUuid4(v) == isValidUUID(v) /\ v.s[15] = "4"
        RaisesMessage(text) ==
            /\ result.k = "throw"
            /\ result.e.name = "MarzPayError"
            /\ result.e.message = Str(<<text>>)
        reference == Get(arg.f, "reference")
    IN  /\ (/\ op \in {"collections.validateCollectionParams",
                        "disbursements.validateDisbursementParams"}
            /\ arg.t = "object"
            /\ Get(arg.f, "amount") = ValidCollection.amount
            /\ Get(arg.f, "phoneNumber") = ValidCollection.phoneNumber) =>
              /\ reference = Undefined => RaisesMessage("Reference is required")
              /\ (reference # Undefined /\ ~IsUuid4(reference)) =>
                    RaisesMessage("Reference must be a valid UUID4")
        /\ (/\ op \in {"collections.isValidReference", "disbursements.isValidReference"}
            /\ arg # Undefined
            /\ ~IsUuid4(arg)) => result = Return(Bool(FALSE))

\* C25: every request collectMoney or sendMoney issues is a POST to
\* /collect-money or /send-money whose body has a phone_number of the form
\* +256 and nine digits and an amount that is an integer inside the limits of
\* the operation; description and callback_url are null and country is 'UG'
\* when the caller gave none.
C25_PaymentBodyCanonical ==
    \A i \in Issued :
        LET body == calls[i].options.body.f
            Given(key, sent, default) ==
                IF Get(arg.f, key) = Undefined THEN body[sent] = default ELSE TRUE
            InLimits(min, max) ==
                /\ IsInteger(body.amount)
                /\ min <= body.amount.n
                /\ body.amount.n <= max
        IN  op \in {"collections.collectMoney", "disbursements.sendMoney"} =>
                /\ calls[i].options.method = Str(<<"POST">>)
                /\ calls[i].endpoint = IF op = "collections.collectMoney"
                                       THEN <<"/collect-money">> ELSE <<"/send-money">>
                /\ IsString(body.phone_number)
                /\ PatternInternational(body.phone_number.s)
                /\ IF op = "collections.collectMoney" THEN InLimits(500, 10000000)
                   ELSE InLimits(1000, 500000)
                /\ Given("description", "description", Null)
                /\ Given("callbackUrl", "callback_url", Null)
                /\ Given("country", "country", Str(<<"UG">>))

-----------------------------------------------------------------------------
(* Properties of the summary operations *)

\* C26: called with arguments their documentation allows, getPeriodSummary,
\* getMonthlySummary, getBalanceTrends, TransactionsAPI.getSummary and
\* getAnalytics pass the validation of their module and issue their query:
\* none of them rejects before it has called request().
C26_SummariesCanSucceed ==
    LET first == arg.items[1]
        second == arg.items[2]
        Documented ==
            CASE op = "balance.getPeriodSummary" -> first # Undefined /\ second # Undefined
              [] op = "balance.getMonthlySummary" ->
                    first.n \in 2000..2100 /\ second.n \in 1..12
              [] op \in {"balance.getBalanceTrends", "transactions.getAnalytics"} ->
                    /\ first \in {Undefined, Str(<<"daily">>), Str(<<"weekly">>),
                                  Str(<<"monthly">>)}
                    /\ second = Undefined \/ second.n \in 1..24
              [] op = "transactions.getSummary" -> TRUE
              [] OTHER -> FALSE
    IN  (Documented /\ result # NotCalled) => Issued # {}

-----------------------------------------------------------------------------
(* Properties of credential rotation *)

\* the Authorization header a call was sent with
SentAuthorization(c) ==
    Get(Spread(Get(c.sent.config, "headers")), "Authorization")

\* C27: under any interleaving of setCredentials with calls of request(), the
\* Authorization header of each outbound call is the Basic header of the pair
\* that was current when the call was invoked, a later setCredentials does not
\* change the header of a call in flight, after setCredentials(u, k) the current
\* pair is (u, k), and so every header encodes a pair that the constructor or
\* one setCredentials call configured, never the user of one with the key of
\* another.
C27_HeaderEncodesCurrentPair ==
    /\ [][\A i \in Slots :
            /\ (calls[i].pc \in {"idle", "done"} /\ calls'[i].pc = "fetching") =>
                  SentAuthorization(calls'[i]) = getAuthHeader(config).v
            /\ calls[i].pc \in {"fetching", "decoding"} =>
                  calls'[i].sent = calls[i].sent]_vars
    /\ [](op = "setCredentials" =>
             /\ config.apiUser = arg.items[1]
             /\ config.apiKey = arg.items[2])
    /\ [](\A i \in Slots :
             (calls[i].pc # "idle" /\ calls[i].sent # NotCalled) =>
                 SentAuthorization(calls[i]) \in
                     {getAuthHeader(c).v : c \in {ConstructedCredentials}
                                                   \cup RotatedCredentials})

-----------------------------------------------------------------------------
(* GeneralUtils.retryWithBackoff: the loop of attempts, one step per await *)

\* the largest maxRetries a caller passes
MaxRetry == 2

\* maxRetries as passed: left out, negative, zero, positive
RetryCounts == {Undefined} \cup {Num(n) : n \in (0 - 2)..MaxRetry}

\* baseDelay as passed, in milliseconds
BaseDelays == {Undefined, Num(0), Num(100)}

\* how one invocation of func settles: its value, or the error it throws
FuncOutcomes ==
    { Resolve(Str(<<"success">>)),
      Reject(OtherError("Error", <<"Temporary failure">>)),
      Reject(OtherError("TypeError", <<"Network error">>)) }

\* Math.pow(base, exponent), exponent a natural number
RECURSIVE Pow(_, _)
Pow(base, exponent) ==
    IF exponent = 0 THEN 1 ELSE base * Pow(base, exponent - 1)

InitRetry ==
    /\ retry = NoRetry
    /\ phone = Undefined
    /\ op = "none"
    /\ arg = Undefined
    /\ result = NotCalled
    /\ providerSeen = NotCalled
    /\ given = EmptyObject
    /\ config = [apiUser |-> Str(<<>>), apiKey |-> Str(<<>>)]
    /\ calls = [i \in Slots |-> [pc |-> "idle"]]

\* the head of the for loop, reached on entry and after each sleep: when
\* attempt <= maxRetries func is invoked and awaited, otherwise the loop is
\* left and lastError is thrown
LoopTest(r) ==
    IF r.attempt <= r.maxRetries
    THEN [r EXCEPT !.pc = "func", !.invoked = @ + 1]
    ELSE [r EXCEPT !.pc = "done", !.settled = Reject(r.lastError)]

\* retryWithBackoff(func, maxRetries = 3, baseDelay = 1000), up to its first
\* await.  invoked, outcomes and slept record what the call has done so far:
\* the invocations of func, how they settled, the delays given to sleep
RetryWithBackoff(maxRetries, baseDelay) ==
    /\ retry.pc = "idle"
    /\ retry' = LoopTest([pc |-> "entry",
                          maxRetries |-> IF maxRetries = Undefined
                                         THEN 3 ELSE maxRetries.n,
                          baseDelay |-> IF baseDelay = Undefined
                                        THEN 1000 ELSE baseDelay.n,
                          attempt |-> 0,
                          lastError |-> Undefined,
                          invoked |-> 0,
                          outcomes |-> <<>>,
                          slept |-> <<>>,
                          settled |-> NotCalled])
    /\ op' = "retryWithBackoff"
    /\ arg' = Arr(<<maxRetries, baseDelay>>)
    /\ UNCHANGED <<phone, result, providerSeen, given, config, calls>>

\* return await func(): the awaited invocation gives a value
FuncReturns(v) ==
    /\ retry.pc = "func"
    /\ retry' = [retry EXCEPT !.pc = "done",
                              !.outcomes = Append(@, Resolve(v)),
                              !.settled = Resolve(v)]
    /\ UNCHANGED <<phone, op, arg, result, providerSeen, given, config, calls>>

\* catch (error): the last attempt rethrows, any other one starts the sleep
FuncThrows(error) ==
    /\ retry.pc = "func"
    /\ retry' =
          IF retry.attempt = retry.maxRetries
          THEN [retry EXCEPT !.pc = "done",
                             !.outcomes = Append(@, Reject(error)),
                             !.lastError = error,
                             !.settled = Reject(error)]
          ELSE [retry EXCEPT !.pc = "sleep",
                             !.outcomes = Append(@, Reject(error)),
                             !.lastError = error,
                             !.slept = Append(@, retry.baseDelay
                                                   * Pow(2, retry.attempt))]
    /\ UNCHANGED <<phone, op, arg, result, providerSeen, given, config, calls>>

\* the timer of sleep(delay) fires: attempt++ and the loop test
SleepResolves ==
    /\ retry.pc = "sleep"
    /\ retry' = LoopTest([retry EXCEPT !.attempt = @ + 1])
    /\ UNCHANGED <<phone, op, arg, result, providerSeen, given, config, calls>>

NextRetry ==
    \/ \E maxRetries \in RetryCounts, baseDelay \in BaseDelays :
          RetryWithBackoff(maxRetries, baseDelay)
    \/ \E o \in {x \in FuncOutcomes : x.k = "resolve"} : FuncReturns(o.v)
    \/ \E o \in {x \in FuncOutcomes : x.k = "reject"} : FuncThrows(o.e)
    \/ SleepResolves

SpecRetry == InitRetry /\ [][NextRetry]_vars

\* the invocations of func come one at a time, and there are never more of
\* them than maxRetries + 1
AttemptsBounded ==
    retry.pc # "idle" =>
        /\ retry.invoked - Len(retry.outcomes) \in {0, 1}
        /\ retry.invoked <= Max(retry.maxRetries + 1, 0)

\* the call resolves with the value of the first attempt that succeeds
ResolvesWithFirstSuccess ==
    (retry.pc # "idle" /\ \E i \in 1..Len(retry.outcomes) :
                              retry.outcomes[i].k = "resolve") =>
        /\ retry.outcomes[Len(retry.outcomes)].k = "resolve"
        /\ \A i \in 1..(Len(retry.outcomes) - 1) : retry.outcomes[i].k = "reject"
        /\ retry.settled = retry.outcomes[Len(retry.outcomes)]
        /\ retry.invoked = Len(retry.outcomes)

\* once the call has settled nothing more is attempted
NoAttemptAfterSettling ==
    [][(retry.pc # "idle" /\ retry.settled # NotCalled) =>
           retry' = retry]_vars

\* when maxRetries + 1 attempts have all failed, the call rejects with the
\* error of the last one
RejectsWithLastError ==
    (/\ retry.pc # "idle"
     /\ Len(retry.outcomes) > 0
     /\ Len(retry.outcomes) = retry.maxRetries + 1
     /\ \A i \in 1..Len(retry.outcomes) : retry.outcomes[i].k = "reject") =>
        retry.settled = retry.outcomes[Len(retry.outcomes)]

\* the i-th wait lasts baseDelay * 2^(i - 1); there is one wait between two
\* consecutive attempts and none after the last attempt
WaitsBetweenAttempts ==
    retry.pc # "idle" =>
        /\ \A i \in 1..Len(retry.slept) :
               retry.slept[i] = retry.baseDelay * Pow(2, i - 1)
        /\ retry.pc = "func" => Len(retry.slept) = retry.invoked - 1
        /\ retry.pc = "sleep" => Len(retry.slept) = retry.invoked
        /\ retry.pc = "done" => Len(retry.slept) = Max(retry.invoked - 1, 0)

\* whatever the call rejects with is an error that func threw
RejectsOnlyWithFuncError ==
    (retry.pc # "idle" /\ retry.settled # NotCalled
                       /\ retry.settled.k = "reject") =>
        \E i \in 1..Len(retry.outcomes) : retry.outcomes[i] = retry.settled

\* C30: retryWithBackoff(func, maxRetries, baseDelay) invokes func one attempt
\* at a time and at most maxRetries + 1 times; it resolves with the value of
\* the first successful attempt and attempts nothing afterwards; when all
\* maxRetries + 1 attempts fail it rejects with the error of the last one; it
\* waits baseDelay * 2^attempt between consecutive attempts and does not wait
\* after the final failure; for every integer maxRetries, zero and negative
\* values included, it rejects only with an error thrown by func
C30_RetriesThenRejectsWithFuncError ==
    /\ NoAttemptAfterSettling
    /\ [](/\ AttemptsBounded
          /\ ResolvesWithFirstSuccess
          /\ RejectsWithLastError
          /\ WaitsBetweenAttempts
          /\ RejectsOnlyWithFuncError)

====
